---- MODULE Spec2Model ----
(***************************************************************************)
(* Model of the coordination logic of product-explorer:                    *)
(*   - ProductExplorer.create_session      (retry on HTTP 429)             *)
(*   - ProductExplorer.explore_product     (main flow, email monitor,      *)
(*                                          session/task hand-off)         *)
(*   - CourseExecutor.execute_course       (signup, monitor, course task)  *)
(*   - HeyGenGenerator._wait_for_video     (timed polling loop)            *)
(*   - CourseExecutor.execute_all_courses  (staggered concurrent batch)    *)
(*   - VideoComposer._compose_with_ffmpeg  (narration overlay filters)     *)
(*   - ProductExplorer.get_verification_data (what one message yields)     *)
(*   - LiveVideoRecorder._monitor_task_completion (timed polling loop)     *)
(*   - VideoComposer.compose_video         (concurrent calls, fallback)    *)
(*   - explore_product_cli                 (pipeline of stages)            *)
(*                                                                         *)
(* The program runs on one asyncio event loop.  A coroutine runs without   *)
(* interruption from one await to the next, so every action below is one   *)
(* such run-to-next-await segment of one coroutine (or one step of the     *)
(* remote services).  Blocking calls (requests.*, time.sleep, the OpenAI   *)
(* client) do not yield and therefore lie inside a segment.                *)
(*                                                                         *)
(* The variable flow names the entry point that was invoked; the flows     *)
(* share the object attributes and the model of the remote browser API.    *)
(***************************************************************************)
EXTENDS Integers, Sequences, FiniteSets, TLC

VARIABLES
    flow,        \* entry point under analysis
    session_id,  \* ProductExplorer.session_id (None = 0)
    task_id,     \* ProductExplorer.task_id    (None = 0)
    sessions,    \* browser API: sessions[i] is the state of session i
    tasks,       \* browser API: tasks[i] = [session, status, steps] of task i
    cs_in,       \* create_session call: [retries, resps, prior session_id]
    cs_out,      \* create_session call: what the call did
    main_pc,     \* explore_product: the await the main flow is suspended at
    mon_pc,      \* _monitor_verification_email: the await it is suspended at
    mon_end,     \* how the monitor coroutine ended
    mon_result,  \* what get_verification_data returned to the monitor
    cancel_req,  \* email_monitor_task.cancel() was called and not yet delivered
    elapsed,     \* time.time() - start_time as the timed loop of the flow last
                 \* read it; 0 before the loop and after it ended other than by
                 \* its timeout (the local is gone)
    inbox,       \* the newest message of the disposable inbox
    last_poll,   \* the latest answer to a task-status GET: [task, status]
    last_task_id,\* wait_for_task_completion: the local last_task_id
    main_result, \* the task data wait_for_task_completion returned
    log,         \* API calls and attribute writes, in the order made
    course_index,\* execute_course: the position of the course in its batch
    rec_pc,      \* execute_course: the state of the video recording task
    video_url,   \* _wait_for_video: what the call returned
    capture_timeline, \* _wait_for_task: capture_timeline of the running call
    last_step_count,  \* _wait_for_task: the local last_step_count
    timeline,    \* _wait_for_task: the local timeline_events
    batch_pc,    \* execute_all_courses: where the coroutine stands
    prepared,    \* execute_all_courses: len(tasks), the coroutines made
    wf,          \* execute_all_courses: wf[i] is the workflow of course i
    now,         \* the clock of the event loop (s)
    created,     \* the signup sessions made, in the order of their POSTs
    finished,    \* the course indices in the order their workflows ended
    results,     \* what execute_all_courses returned
    vd_in,       \* get_verification_data: the message and the LLM answer
    vd_out,      \* get_verification_data: the dict returned for them
    cli,         \* explore_product_cli: its arguments, the exploration
                 \* result, and how the run ended
    compose_in,  \* _compose_with_ffmpeg: the intro video, what ffprobe says
    narration_segments, \* _compose_with_ffmpeg: the list of segment dicts
    filters,     \* _compose_with_ffmpeg: filter_complex
    cmd,         \* _compose_with_ffmpeg: the inputs of the ffmpeg command
    compose_out, \* _compose_with_ffmpeg: what became the output file
    composing,   \* compose_video: composing[c] is call c on the VideoComposer
    output_dir   \* VideoComposer.output_dir: the files of the directory

apiVars == <<sessions, tasks>>
objVars == <<session_id, task_id>>
csVars  == <<cs_in, cs_out>>
exVars  == <<main_pc, mon_pc, mon_end, mon_result, cancel_req, elapsed, inbox,
             last_poll, last_task_id, main_result, log>>
coVars  == <<course_index, rec_pc, video_url>>
tlVars  == <<capture_timeline, last_step_count, timeline>>
baVars  == <<batch_pc, prepared, wf, now, created, finished, results>>
vdVars  == <<vd_in, vd_out, cli>>
vcVars  == <<compose_in, narration_segments, filters, cmd, compose_out,
             composing, output_dir>>

None == 0

----------------------------------------------------------------------------
(* Bounds of the model *)

MaxRetries == 3      \* largest value of the retries parameter explored
MaxLatency == 1      \* longest time (s) an awaited call takes beyond its sleep
MaxCourseIndex == 1  \* largest course_index explored
MaxCourses == 2      \* largest number of courses in a batch
TickSeconds == 10    \* the step of the event loop's clock followed (s)
MaxWords == 2        \* most words in a message body
MaxSegments == 2     \* longest list of narration segments
MaxSteps == 2        \* most steps the agent of a task reports
MaxOffset == 2       \* latest time (s) drawn for a poll that finds new steps,
                     \* unless the poll before it was already that late
MaxCalls == 2        \* most compose_video calls running at a time

----------------------------------------------------------------------------
(* Remote browser API: what one HTTP request can be answered with *)

\* POST /sessions: 2xx with a session, HTTP 429, another HTTP error status,
\* or an exception that is no HTTPError (connection error, bad JSON, ...)
PostReplies == {"ok", "http429", "http_other", "exc"}

TerminalStatuses == {"finished", "stopped", "failed"}

----------------------------------------------------------------------------
(* ProductExplorer.create_session *)

\* wait_time = (attempt + 1) * 15, attempt counted from 0
WaitTime15 == 15
WaitTimeFlat(attempt) == WaitTime15
WaitTime(attempt) == (attempt + 1) * WaitTime15

\* the one HTTP status that is slept on and retried
IsRetriedAll(reply) == reply \in {"http429", "http_other"}
IsRetried(reply) == reply = "http429"

\* The for-loop of create_session from iteration `attempt` on.  resps[k] is
\* the answer to the k-th POST.  The result records how the call ended, the
\* number of POSTs made and the time.sleep() calls made, in order.
RECURSIVE CreateSessionFrom(_, _, _, _)
CreateSessionFrom(attempt, retries, resps, sleeps) ==
    IF attempt >= retries
    THEN [outcome |-> "raised_exhausted", posts |-> attempt, sleeps |-> sleeps]
    ELSE LET reply == resps[attempt + 1] IN
         IF reply = "ok"
         THEN [outcome |-> "returned", posts |-> attempt + 1, sleeps |-> sleeps]
         ELSE IF IsRetried(reply)
         THEN CreateSessionFrom(attempt + 1, retries, resps,
                                Append(sleeps, WaitTime(attempt)))
         ELSE IF reply = "http_other"
         THEN [outcome |-> "raised_http", posts |-> attempt + 1, sleeps |-> sleeps]
         ELSE [outcome |-> "raised_exc", posts |-> attempt + 1, sleeps |-> sleeps]

CreateSession(retries, resps) == CreateSessionFrom(0, retries, resps, <<>>)

\* the value of self.session_id after create_session: the id of the session
\* the API made (line 179), or the old value when the call raised
SessionIdAfter(res, old, new) == IF res.outcome = "returned" THEN new ELSE old

NotCalled == [outcome |-> "pending", posts |-> 0, sleeps |-> <<>>]

\* a stand-alone call ProductExplorer.create_session(retries = cs_in.retries)
CallCreateSession ==
    /\ flow = "session"
    /\ cs_out = NotCalled
    /\ LET res == CreateSession(cs_in.retries, cs_in.resps)
           new == Len(sessions) + 1
       IN /\ cs_out' = res
          /\ session_id' = SessionIdAfter(res, session_id, new)
          /\ sessions' = IF res.outcome = "returned"
                         THEN Append(sessions, "live") ELSE sessions
    /\ UNCHANGED <<flow, task_id, tasks, cs_in>>
    /\ UNCHANGED <<tlVars, baVars, vdVars, vcVars>>
    /\ UNCHANGED exVars
    /\ UNCHANGED coVars

CsIdle ==
    /\ cs_in = [retries |-> 0, resps |-> <<>>, prior |-> None]
    /\ cs_out = NotCalled

NoPoll == [task |-> None, status |-> "unpolled"]

ExIdle ==
    /\ main_pc = "idle"
    /\ mon_pc = "none"
    /\ mon_end = "running"
    /\ mon_result = "pending"
    /\ cancel_req = FALSE
    /\ elapsed = 0
    /\ inbox = "empty"
    /\ last_poll = NoPoll
    /\ last_task_id = None
    /\ main_result = NoPoll
    /\ log = <<>>

CoIdle ==
    /\ course_index = 0
    /\ rec_pc = "none"
    /\ video_url = "pending"

TlIdle ==
    /\ capture_timeline = FALSE
    /\ last_step_count = 0
    /\ timeline = <<>>

BaIdle ==
    /\ batch_pc = "idle"
    /\ prepared = 0
    /\ wf = <<>>
    /\ now = 0
    /\ created = <<>>
    /\ finished = <<>>
    /\ results = <<>>

VdIdle ==
    /\ vd_in = <<>>
    /\ vd_out = <<>>
    /\ cli = <<>>

\* a file that is not there, and the output directory without the files
\* compose_video works with
NoVideo == [intro |-> 0, browser |-> 0]
EmptyDir == [temp_browser |-> 0, concat_list |-> 0, final |-> <<>>]

VcIdle ==
    /\ compose_in = <<>>
    /\ narration_segments = <<>>
    /\ filters = <<>>
    /\ cmd = <<>>
    /\ compose_out = "pending"
    /\ composing = <<>>
    /\ output_dir = EmptyDir

InitSession ==
    /\ flow = "session"
    /\ TlIdle
    /\ BaIdle
    /\ VdIdle
    /\ VcIdle
    /\ \E n \in 0..1 :
          /\ sessions = [i \in 1..n |-> "live"]
          /\ session_id = n
    /\ task_id = None
    /\ tasks = <<>>
    /\ \E r \in 1..MaxRetries : \E rs \in [1..r -> PostReplies] :
          cs_in = [retries |-> r, resps |-> rs, prior |-> session_id]
    /\ cs_out = NotCalled
    /\ ExIdle
    /\ CoIdle

----------------------------------------------------------------------------
(* Remote browser API, as the calls of the program observe it *)

\* PATCH /sessions/{id} {"action": "stop"}: the session stops, and with it
\* every task of the session that has not ended
ApiStopSession(ss, sid) == [ss EXCEPT ![sid] = "stopped"]
ApiStopTasks(ts, sid) ==
    [i \in DOMAIN ts |->
        IF ts[i].session = sid /\ ts[i].status \notin TerminalStatuses
        THEN [ts[i] EXCEPT !.status = "stopped"]
        ELSE ts[i]]

\* POST /tasks {"sessionId": sid}: a new task, running in session sid
ApiNewTask(ts, sid) ==
    Append(ts, [session |-> sid, status |-> "started", steps |-> 0])

\* GET /tasks/{id}: the task data, task data without a status, or a failure
\* (an exception of requests.get or an HTTP error status)
GetReplies == {"ok", "nostatus", "error"}
GetStatus(ts, tid, reply) ==
    IF reply = "error" \/ tid \notin DOMAIN ts THEN "error"
    ELSE IF reply = "nostatus" THEN "none"
    ELSE ts[tid].status

\* the agent of a running task ends the task on its own
ApiTaskEnds ==
    /\ flow \in {"explore", "course"}
    /\ \E i \in DOMAIN tasks : \E st \in {"finished", "failed"} :
          /\ tasks[i].status = "started"
          /\ tasks' = [tasks EXCEPT ![i].status = st]
    /\ UNCHANGED <<flow, session_id, task_id, sessions>>
    /\ UNCHANGED csVars
    /\ UNCHANGED <<tlVars, baVars, vdVars, vcVars>>
    /\ UNCHANGED coVars
    /\ UNCHANGED exVars

\* the agent of a running task makes a step: the list 'steps' of the task
\* data grows by one entry.  Only the steps of a task whose polls read the
\* list (_wait_for_task with capture_timeline) are followed.
ApiStepMade ==
    /\ flow = "course"
    /\ capture_timeline
    /\ \E i \in {task_id} :
          /\ tasks[i].status = "started"
          /\ tasks[i].steps < MaxSteps
          /\ tasks' = [tasks EXCEPT ![i].steps = @ + 1]
    /\ UNCHANGED <<flow, session_id, task_id, sessions>>
    /\ UNCHANGED <<csVars, exVars, coVars, tlVars, baVars, vdVars, vcVars>>

\* a message arrives in the disposable inbox; the newest message is what
\* messages.list returns first
MailBodies == {"code6", "code4", "plain"}
MailArrives ==
    /\ flow \in {"explore", "course"}
    /\ inbox = "empty"
    /\ \E b \in MailBodies : inbox' = b
    /\ UNCHANGED <<flow, session_id, task_id, sessions, tasks>>
    /\ UNCHANGED csVars
    /\ UNCHANGED <<tlVars, baVars, vdVars, vcVars>>
    /\ UNCHANGED coVars
    /\ UNCHANGED <<main_pc, mon_pc, mon_end, mon_result, cancel_req, elapsed,
                   last_poll, last_task_id, main_result, log>>

----------------------------------------------------------------------------
(* ProductExplorer: get_verification_data, the hand-off, explore_product *)

VerifyTimeout == 90   \* get_verification_data(timeout=90)
InboxInterval == 3    \* asyncio.sleep(3) between two looks at the inbox
DefaultRetries == 3   \* create_session(..., retries=3)

\* every way a call create_session(start_url) with the default retries can go
DefaultCreateSession ==
    {CreateSession(DefaultRetries, rs) : rs \in [1..DefaultRetries -> PostReplies]}

Ev(by, op, arg, url) == [by |-> by, op |-> op, arg |-> arg, url |-> url]

\* what the LLM call of get_verification_data can produce
LlmAnswers == {"url", "NONE", "nonhttp", "empty", "raise"}

\* lines 98-129: the kind of result for the newest message
VerificationType(llm, body) ==
    IF llm = "url" THEN "link"
    ELSE IF body \in {"code6", "code4"} THEN "code"
    ELSE "text"

\* the while condition of get_verification_data
InboxLoopGoesOnLate(t) == t <= VerifyTimeout
InboxLoopGoesOn(t) == t < VerifyTimeout

\* the task id a poll of wait_for_task_completion asks for: self.task_id as
\* it is at the poll (line 252), not the id remembered from the last poll
PollTargetRemembered(current, last) == IF last # None THEN last ELSE current
PollTarget(current, last) == current

\* lines 270-272
IsTerminalLoose(status) == status # "started"
IsTerminal(status) == status \in TerminalStatuses

InitExplore ==
    /\ flow = "explore"
    /\ TlIdle
    /\ BaIdle
    /\ VdIdle
    /\ VcIdle
    /\ session_id = None
    /\ task_id = None
    /\ sessions = <<>>
    /\ tasks = <<>>
    /\ CsIdle
    /\ main_pc = "start"
    /\ mon_pc = "none"
    /\ mon_end = "running"
    /\ mon_result = "pending"
    /\ cancel_req = FALSE
    /\ elapsed = 0
    /\ inbox = "empty"
    /\ last_poll = NoPoll
    /\ last_task_id = None
    /\ main_result = NoPoll
    /\ log = <<>>
    /\ CoIdle

\* the event loop runs the coroutines of explore_product until the caller
\* gets an exception from it (src/explore.py then leaves asyncio.run)
LoopRuns == main_pc # "raised"

\* line 624: email_monitor_task and not email_monitor_task.done()
MustCancelNever(pc) == FALSE
MustCancel(pc) == pc \notin {"none", "done"}

\* explore_product up to its first await: create_temp_email
ExploreStart ==
    /\ flow = "explore"
    /\ main_pc = "start"
    /\ main_pc' = "await_email"
    /\ UNCHANGED <<flow, session_id, task_id, sessions, tasks>>
    /\ UNCHANGED csVars
    /\ UNCHANGED <<tlVars, baVars, vdVars, vcVars>>
    /\ UNCHANGED coVars
    /\ UNCHANGED <<mon_pc, mon_end, mon_result, cancel_req, elapsed, inbox,
                   last_poll, last_task_id, main_result, log>>

\* lines 573-618 and 249: the inbox is there; create_session, start the
\* monitor task, create_task, enter wait_for_task_completion and sleep
ExploreSetup ==
    /\ flow = "explore"
    /\ main_pc = "await_email"
    /\ \/ /\ main_pc' = "raised"          \* inboxes.create() raised
          /\ UNCHANGED <<session_id, task_id, sessions, tasks, mon_pc, log>>
       \/ \E res \in DefaultCreateSession :
          LET sid == Len(sessions) + 1
              log1 == log \o <<Ev("main", "create_session", sid, "product"),
                               Ev("main", "set_session_id", sid, "-"),
                               Ev("main", "create_monitor_task", None, "-")>>
          IN IF res.outcome # "returned"
             THEN /\ main_pc' = "raised"
                  /\ UNCHANGED <<session_id, task_id, sessions, tasks, mon_pc, log>>
             ELSE /\ sessions' = Append(sessions, "live")
                  /\ session_id' = SessionIdAfter(res, session_id, sid)
                  /\ mon_pc' = "scheduled"
                  /\ \/ /\ main_pc' = "raised"       \* create_task raised
                        /\ log' = log1
                        /\ UNCHANGED <<task_id, tasks>>
                     \/ /\ tasks' = ApiNewTask(tasks, sid)
                        /\ task_id' = Len(tasks) + 1
                        /\ log' = log1 \o
                              <<Ev("main", "create_task", sid, "product"),
                                Ev("main", "set_task_id", Len(tasks) + 1, "-")>>
                        /\ main_pc' = "sleep"
    /\ UNCHANGED flow
    /\ UNCHANGED csVars
    /\ UNCHANGED <<tlVars, baVars, vdVars, vcVars>>
    /\ UNCHANGED coVars
    /\ UNCHANGED <<mon_end, mon_result, cancel_req, elapsed, inbox,
                   last_poll, last_task_id, main_result>>

\* lines 623-639 once the monitor is done: the share link is requested and
\* explore_product returns; no attribute is written
ShareLogReassign(l, sid) ==
    l \o <<Ev("main", "set_session_id", sid, "-"), Ev("main", "share", sid, "-")>>
ShareLog(l, sid) == Append(l, Ev("main", "share", sid, "-"))

\* lines 274-276: where a failed status check leaves the coroutine, in the
\* extra sleep of the except clause
AfterPollErrorRaise == "raised"
AfterPollError == "sleep_err"

\* one turn of the loop of wait_for_task_completion (lines 249-276) and, on
\* return, lines 620-629 of explore_product
PollTask ==
    /\ flow = "explore"
    /\ main_pc = "sleep"
    /\ mon_pc # "scheduled"     \* the monitor's first step was queued first
    /\ \E reply \in GetReplies :
       LET current_task_id == PollTarget(task_id, last_task_id)
           status == GetStatus(tasks, current_task_id, reply)
       IN /\ last_task_id' = current_task_id
          /\ last_poll' = [task |-> current_task_id, status |-> status]
          /\ IF status = "error"
             THEN /\ main_pc' = AfterPollError
                  /\ UNCHANGED <<main_result, cancel_req, log>>
             ELSE IF IsTerminal(status)
             THEN /\ main_result' = [task |-> current_task_id, status |-> status]
                  /\ IF ~MustCancel(mon_pc)
                     THEN /\ main_pc' = "returned"
                          /\ log' = ShareLog(log, session_id)
                          /\ UNCHANGED cancel_req
                     ELSE /\ cancel_req' = TRUE
                          /\ main_pc' = "await_monitor"
                          /\ UNCHANGED log
             ELSE /\ main_pc' = "sleep"
                  /\ UNCHANGED <<main_result, cancel_req, log>>
    /\ UNCHANGED <<flow, session_id, task_id, sessions, tasks>>
    /\ UNCHANGED csVars
    /\ UNCHANGED <<tlVars, baVars, vdVars, vcVars>>
    /\ UNCHANGED coVars
    /\ UNCHANGED <<mon_pc, mon_end, mon_result, elapsed, inbox>>

\* line 276: the extra sleep after a failed status check
PollBackoff ==
    /\ flow = "explore"
    /\ main_pc = "sleep_err"
    /\ main_pc' = "sleep"
    /\ UNCHANGED <<flow, session_id, task_id, sessions, tasks>>
    /\ UNCHANGED csVars
    /\ UNCHANGED <<tlVars, baVars, vdVars, vcVars>>
    /\ UNCHANGED coVars
    /\ UNCHANGED <<mon_pc, mon_end, mon_result, cancel_req, elapsed, inbox,
                   last_poll, last_task_id, main_result, log>>

\* lines 627-639: the awaited monitor task is done
FinishExplore ==
    /\ flow = "explore"
    /\ main_pc = "await_monitor"
    /\ mon_pc = "done"
    /\ main_pc' = "returned"
    /\ log' = ShareLog(log, session_id)
    /\ UNCHANGED <<flow, session_id, task_id, sessions, tasks>>
    /\ UNCHANGED csVars
    /\ UNCHANGED <<tlVars, baVars, vdVars, vcVars>>
    /\ UNCHANGED coVars
    /\ UNCHANGED <<mon_pc, mon_end, mon_result, cancel_req, elapsed, inbox,
                   last_poll, last_task_id, main_result>>

\* line 507: the one result type that makes the monitor replace the session
HandsOffCodeToo(v_type) == v_type \in {"link", "code"}
HandsOff(v_type) == v_type = "link"

\* lines 501-561: after the one result of get_verification_data was acted
\* on, the monitor coroutine ends
AfterResultPollAgain == "await_list"
AfterResult == "done"

\* first step of the monitor task: get_verification_data up to its first
\* await, messages.list (lines 63-77)
MonStart ==
    /\ flow = "explore"
    /\ LoopRuns
    /\ mon_pc = "scheduled"
    /\ ~cancel_req
    /\ elapsed' = 0
    /\ mon_pc' = IF InboxLoopGoesOn(0) THEN "await_list" ELSE "done"
    /\ UNCHANGED <<flow, session_id, task_id, sessions, tasks>>
    /\ UNCHANGED csVars
    /\ UNCHANGED <<tlVars, baVars, vdVars, vcVars>>
    /\ UNCHANGED coVars
    /\ UNCHANGED <<main_pc, mon_end, mon_result, cancel_req, inbox,
                   last_poll, last_task_id, main_result, log>>

\* messages.list answered (lines 77-81, 131): an empty inbox leads to the
\* sleep, a message to messages.get; an exception of the call ends the
\* monitor in its except clause (line 560)
MonList ==
    /\ flow = "explore"
    /\ LoopRuns
    /\ mon_pc = "await_list"
    /\ ~cancel_req
    /\ \/ /\ mon_pc' = "done"
          /\ mon_end' = "error"
          /\ elapsed' = 0
       \/ /\ mon_pc' = IF inbox = "empty" THEN "sleep" ELSE "await_get"
          /\ UNCHANGED <<mon_end, elapsed>>
    /\ UNCHANGED <<flow, session_id, task_id, sessions, tasks>>
    /\ UNCHANGED csVars
    /\ UNCHANGED <<tlVars, baVars, vdVars, vcVars>>
    /\ UNCHANGED coVars
    /\ UNCHANGED <<main_pc, mon_result, cancel_req, inbox,
                   last_poll, last_task_id, main_result, log>>

\* asyncio.sleep(3) is over: the while condition is read again (line 72);
\* when it fails get_verification_data returns None and the monitor ends.
\* Since the last reading the clock advanced by the sleep and by what the
\* awaited calls of the turn took (d).
MonWake ==
    /\ flow = "explore"
    /\ LoopRuns
    /\ mon_pc = "sleep"
    /\ ~cancel_req
    /\ \E d \in 0..MaxLatency :
          /\ elapsed' = elapsed + InboxInterval + d
          /\ IF InboxLoopGoesOn(elapsed')
             THEN /\ mon_pc' = "await_list"
                  /\ UNCHANGED <<mon_result, mon_end>>
             ELSE /\ mon_pc' = "done"
                  /\ mon_result' = "None"
                  /\ mon_end' = "normal"
    /\ UNCHANGED <<flow, session_id, task_id, sessions, tasks>>
    /\ UNCHANGED csVars
    /\ UNCHANGED <<tlVars, baVars, vdVars, vcVars>>
    /\ UNCHANGED coVars
    /\ UNCHANGED <<main_pc, cancel_req, inbox,
                   last_poll, last_task_id, main_result, log>>

\* messages.get answered (lines 88-129), then the monitor acts on the result
\* (lines 503-556).  Nothing here awaits: the LLM call, stop_session,
\* create_session and create_task block the event loop.
MonGet ==
    /\ flow = "explore"
    /\ LoopRuns
    /\ mon_pc = "await_get"
    /\ ~cancel_req
    /\ mon_pc' = AfterResult
    /\ elapsed' = 0
    /\ \E body \in {inbox, "plain"} : \E llm \in LlmAnswers :
       LET v_type == VerificationType(llm, body) IN
       /\ mon_result' = v_type
       /\ IF ~HandsOff(v_type)
          THEN /\ mon_end' = "normal"
               /\ UNCHANGED <<session_id, task_id, sessions, tasks, log>>
          ELSE \E stopped \in BOOLEAN :
               \E res \in DefaultCreateSession :
               \E task_made \in BOOLEAN :
               LET old_session_id == session_id
                   ss1 == IF stopped THEN ApiStopSession(sessions, old_session_id)
                          ELSE sessions
                   ts1 == IF stopped THEN ApiStopTasks(tasks, old_session_id)
                          ELSE tasks
                   log1 == Append(log, Ev("monitor", "stop_session",
                                          old_session_id, "-"))
                   sid == Len(ss1) + 1
                   tid == Len(ts1) + 1
                   log2 == log1 \o <<Ev("monitor", "create_session", sid, "link"),
                                     Ev("monitor", "set_session_id", sid, "-"),
                                     Ev("monitor", "set_session_id", sid, "-")>>
                   log3 == log2 \o <<Ev("monitor", "create_task", sid, "link"),
                                     Ev("monitor", "set_task_id", tid, "-"),
                                     Ev("monitor", "set_task_id", tid, "-")>>
               IN IF res.outcome # "returned"
                  THEN /\ mon_end' = "error"
                       /\ sessions' = ss1
                       /\ tasks' = ts1
                       /\ log' = log1
                       /\ UNCHANGED <<session_id, task_id>>
                  ELSE /\ sessions' = Append(ss1, "live")
                       /\ session_id' = SessionIdAfter(res, session_id, sid)
                       /\ IF task_made
                          THEN /\ tasks' = ApiNewTask(ts1, sid)
                               /\ task_id' = tid
                               /\ log' = log3
                               /\ mon_end' = "normal"
                          ELSE /\ tasks' = ts1
                               /\ log' = log2
                               /\ mon_end' = "error"
                               /\ UNCHANGED task_id
    /\ UNCHANGED flow
    /\ UNCHANGED csVars
    /\ UNCHANGED <<tlVars, baVars, vdVars, vcVars>>
    /\ UNCHANGED coVars
    /\ UNCHANGED <<main_pc, cancel_req, inbox,
                   last_poll, last_task_id, main_result>>

\* the CancelledError of email_monitor_task.cancel() is raised at the await
\* the monitor is suspended at and caught at line 558
MonCancelled ==
    /\ flow = "explore"
    /\ LoopRuns
    /\ mon_pc \in {"scheduled", "await_list", "await_get", "sleep"}
    /\ cancel_req
    /\ mon_pc' = "done"
    /\ mon_end' = "cancelled"
    /\ elapsed' = 0
    /\ cancel_req' = FALSE
    /\ UNCHANGED <<flow, session_id, task_id, sessions, tasks>>
    /\ UNCHANGED csVars
    /\ UNCHANGED <<tlVars, baVars, vdVars, vcVars>>
    /\ UNCHANGED coVars
    /\ UNCHANGED <<main_pc, mon_result, inbox,
                   last_poll, last_task_id, main_result, log>>

\* explore_product raised: its callers leave asyncio.run, which cancels the
\* monitor task if it is still pending
LoopShutdown ==
    /\ flow = "explore"
    /\ main_pc = "raised"
    /\ mon_pc \notin {"none", "done"}
    /\ mon_pc' = "done"
    /\ mon_end' = "cancelled"
    /\ elapsed' = 0
    /\ UNCHANGED <<flow, session_id, task_id, sessions, tasks>>
    /\ UNCHANGED csVars
    /\ UNCHANGED <<tlVars, baVars, vdVars, vcVars>>
    /\ UNCHANGED coVars
    /\ UNCHANGED <<main_pc, mon_result, cancel_req, inbox,
                   last_poll, last_task_id, main_result, log>>

NextExplore ==
    \/ ExploreStart \/ ExploreSetup \/ PollTask \/ PollBackoff \/ FinishExplore
    \/ MonStart \/ MonList \/ MonWake \/ MonGet \/ MonCancelled \/ LoopShutdown

----------------------------------------------------------------------------
(* CourseExecutor: _monitor_verification_email, _wait_for_task,            *)
(* execute_course.  session_id and task_id stand for the locals holding    *)
(* the session and the task the workflow currently works with.             *)

CourseVerifyTimeout == 90   \* _monitor_verification_email(timeout=90)
CourseInboxInterval == 3    \* asyncio.sleep(3)

\* the while condition of _monitor_verification_email
CourseInboxLoopGoesOnLate(t) == t <= CourseVerifyTimeout
CourseInboxLoopGoesOn(t) == t < CourseVerifyTimeout

\* line 89: the LLM answer is taken as the verification URL
IsVerificationUrl(llm) == llm = "url"

InitCourse ==
    /\ flow = "course"
    /\ TlIdle
    /\ BaIdle
    /\ VdIdle
    /\ VcIdle
    /\ session_id = None
    /\ task_id = None
    /\ sessions = <<>>
    /\ tasks = <<>>
    /\ CsIdle
    /\ main_pc = "start"
    /\ mon_pc = "none"
    /\ mon_end = "running"
    /\ mon_result = "pending"
    /\ cancel_req = FALSE
    /\ elapsed = 0
    /\ inbox = "empty"
    /\ last_poll = NoPoll
    /\ last_task_id = None
    /\ main_result = NoPoll
    /\ log = <<>>
    /\ course_index \in 0..MaxCourseIndex
    /\ rec_pc = "none"
    /\ video_url = "pending"

\* lines 412-416: a course that is not the first of its batch sleeps first
CourseDelay ==
    /\ flow = "course"
    /\ main_pc = "start"
    /\ course_index > 0
    /\ main_pc' = "delay"
    /\ UNCHANGED <<flow, session_id, task_id, sessions, tasks>>
    /\ UNCHANGED csVars
    /\ UNCHANGED <<tlVars, baVars, vdVars, vcVars>>
    /\ UNCHANGED coVars
    /\ UNCHANGED <<mon_pc, mon_end, mon_result, cancel_req, elapsed, inbox,
                   last_poll, last_task_id, main_result, log>>

\* lines 418-454 and 156: signup session, signup task, start the monitor
\* task, enter _wait_for_task and sleep.  _create_session and _create_task
\* raise on any failure of their POST.
CourseSignup ==
    /\ flow = "course"
    /\ \/ main_pc = "start" /\ course_index = 0
       \/ main_pc = "delay"
    /\ \/ /\ main_pc' = "raised"             \* _create_session raised
          /\ UNCHANGED <<session_id, task_id, sessions, tasks, mon_pc, log>>
       \/ LET sid == Len(sessions) + 1
              tid == Len(tasks) + 1
          IN /\ sessions' = Append(sessions, "live")
             /\ session_id' = sid
             /\ \/ /\ main_pc' = "raised"    \* _create_task raised
                   /\ log' = Append(log, Ev("course", "create_session", sid, "product"))
                   /\ UNCHANGED <<task_id, tasks, mon_pc>>
                \/ /\ tasks' = ApiNewTask(tasks, sid)
                   /\ task_id' = tid
                   /\ mon_pc' = "scheduled"
                   /\ log' = log \o
                         <<Ev("course", "create_session", sid, "product"),
                           Ev("course", "create_task", sid, "product"),
                           Ev("course", "create_monitor_task", None, "-")>>
                   /\ main_pc' = "signup_sleep"
    /\ UNCHANGED flow
    /\ UNCHANGED csVars
    /\ UNCHANGED <<tlVars, baVars, vdVars, vcVars>>
    /\ UNCHANGED coVars
    /\ UNCHANGED <<mon_end, mon_result, cancel_req, elapsed, inbox,
                   last_poll, last_task_id, main_result>>

\* asyncio.sleep(2) of _wait_for_task
WaitInterval == 2

\* line 170: the steps logged by a poll, range(last_step_count, len(steps)),
\* as positions in the list counted from 1
NewStepsAll(last, n) == 1..n
NewSteps(last, n) == (last + 1)..n

\* lines 172-194: the event of step number k, logged at t_offset
TimelineEvent(k, t_offset) == [step_number |-> k, t_offset_s |-> t_offset]

\* lines 170-194: the events of the steps in ks, in step order
RECURSIVE EventsOf(_, _)
EventsOf(ks, t_offset) ==
    IF ks = {} THEN <<>>
    ELSE LET k == CHOOSE x \in ks : \A y \in ks : x <= y
         IN <<TimelineEvent(k, t_offset)>> \o EventsOf(ks \ {k}, t_offset)

\* the times time.time() - start_time can show in a poll, given the time it
\* showed when it was last read: a sleep or more later
OffsetsAfter(t) ==
    {u \in (t + WaitInterval)..(MaxOffset + WaitInterval) :
        u <= MaxOffset \/ u = t + WaitInterval}

\* the call of _wait_for_task that is running captures the timeline
Capturing == capture_timeline

\* one turn of the loop of _wait_for_task (lines 156-206), for the signup
\* task and for the course task: a failed GET raises out of execute_course,
\* the steps not yet logged are logged with the time of this poll, and a
\* terminal status returns to execute_course (lines 454-458 and 524-527),
\* where the monitor task, or the recording task, is awaited next.  While
\* the timeline is captured, elapsed is the clock as line 172 last read it.
WaitForTask ==
    /\ flow = "course"
    /\ main_pc \in {"signup_sleep", "course_sleep"}
    /\ mon_pc # "scheduled"
    /\ rec_pc # "scheduled"
    /\ \E reply \in GetReplies :
       LET status == GetStatus(tasks, task_id, reply)
           steps == IF status = "error" THEN 0 ELSE tasks[task_id].steps
           logged == NewSteps(last_step_count, steps)
       IN
       /\ last_poll' = [task |-> task_id, status |-> status]
       /\ IF status = "error"
          THEN /\ main_pc' = "raised"
               /\ elapsed' = IF Capturing THEN 0 ELSE elapsed
               /\ last_step_count' = 0
               /\ timeline' = <<>>
               /\ UNCHANGED main_result
          ELSE /\ IF Capturing
                  THEN /\ last_step_count' = steps
                       /\ IF logged = {}
                          THEN /\ elapsed' = IF IsTerminal(status) THEN 0 ELSE elapsed
                               /\ UNCHANGED timeline
                          ELSE \E t_offset \in OffsetsAfter(elapsed) :
                                  /\ elapsed' = IF IsTerminal(status) THEN 0 ELSE t_offset
                                  /\ timeline' = timeline \o EventsOf(logged, t_offset)
                  ELSE UNCHANGED <<elapsed, last_step_count, timeline>>
               /\ IF IsTerminal(status)
                  THEN /\ main_result' = [task |-> task_id, status |-> status]
                       /\ main_pc' = IF main_pc = "signup_sleep"
                                     THEN "await_monitor" ELSE "await_video"
                  ELSE UNCHANGED <<main_pc, main_result>>
    /\ UNCHANGED <<flow, session_id, task_id, sessions, tasks>>
    /\ UNCHANGED csVars
    /\ UNCHANGED <<baVars, vdVars, vcVars>>
    /\ UNCHANGED coVars
    /\ UNCHANGED capture_timeline
    /\ UNCHANGED <<mon_pc, mon_end, mon_result, cancel_req, inbox,
                   last_task_id, log>>

\* _stop_session: the PATCH is sent; an exception of it is swallowed
CourseStopLog(l, sid) == Append(l, Ev("course", "stop_session", sid, "-"))

\* line 460: if not verification_url
NoVerificationUrlNever(verification_url) == FALSE
NoVerificationUrl(verification_url) == verification_url # "url"

\* lines 458-524 and 156: the awaited monitor task is done.  Its exception
\* is raised here; without a URL the signup session is stopped and a failed
\* result returned; with a URL the signup session is stopped, the course
\* session and the course task are created, the recording task is started
\* and _wait_for_task entered with the capture_timeline execute_course was
\* called with (either value; it is read here for the first time).
CourseAfterMonitor ==
    /\ flow = "course"
    /\ main_pc = "await_monitor"
    /\ mon_pc = "done"
    /\ IF mon_end = "error"
       THEN /\ main_pc' = "raised"
            /\ UNCHANGED <<session_id, task_id, sessions, tasks, log, rec_pc,
                           last_poll, main_result>>
       ELSE \E stopped \in BOOLEAN :
            LET ss1 == IF stopped THEN ApiStopSession(sessions, session_id)
                       ELSE sessions
                ts1 == IF stopped THEN ApiStopTasks(tasks, session_id) ELSE tasks
                log1 == CourseStopLog(log, session_id)
                sid == Len(ss1) + 1
                tid == Len(ts1) + 1
            IN IF NoVerificationUrl(mon_result)
               THEN /\ main_pc' = "returned"
                    /\ sessions' = ss1
                    /\ tasks' = ts1
                    /\ log' = Append(log1, Ev("course", "return_failed", None, "-"))
                    /\ UNCHANGED <<session_id, task_id, rec_pc, last_poll,
                                   main_result>>
               ELSE \/ /\ main_pc' = "raised"     \* _create_session raised
                       /\ sessions' = ss1
                       /\ tasks' = ts1
                       /\ log' = log1
                       /\ UNCHANGED <<session_id, task_id, rec_pc, last_poll,
                                      main_result>>
                    \/ /\ sessions' = Append(ss1, "live")
                       /\ session_id' = sid
                       /\ \/ /\ main_pc' = "raised"   \* _create_task raised
                             /\ tasks' = ts1
                             /\ log' = Append(log1,
                                   Ev("course", "create_session", sid, "link"))
                             /\ UNCHANGED <<task_id, rec_pc, last_poll, main_result>>
                          \/ /\ tasks' = ApiNewTask(ts1, sid)
                             /\ task_id' = tid
                             /\ rec_pc' = "scheduled"
                             /\ log' = log1 \o
                                   <<Ev("course", "create_session", sid, "link"),
                                     Ev("course", "create_task", sid, "link"),
                                     Ev("course", "create_recording_task", None, "-")>>
                             /\ last_poll' = NoPoll
                             /\ main_result' = NoPoll
                             /\ main_pc' = "course_sleep"
    /\ IF main_pc' = "course_sleep"
       THEN capture_timeline' \in BOOLEAN
       ELSE UNCHANGED capture_timeline
    /\ UNCHANGED <<last_step_count, timeline>>
    /\ UNCHANGED <<flow, course_index, video_url>>
    /\ UNCHANGED csVars
    /\ UNCHANGED <<baVars, vdVars, vcVars>>
    /\ UNCHANGED <<mon_pc, mon_end, mon_result, cancel_req, elapsed, inbox,
                   last_task_id>>

\* line 527: video_file = await video_recording_task
VideoTaskNotAwaited(rec) == TRUE
VideoTaskEnded(rec) == rec \in {"done", "failed"}

\* line 538: 'status': course_result['status']
ResultStatus(course_result) == course_result.status

\* lines 527-561: the awaited recording task is done; its exception is
\* raised here, otherwise the share link is requested and the result
\* returned
CourseFinish ==
    /\ flow = "course"
    /\ main_pc = "await_video"
    /\ VideoTaskEnded(rec_pc)
    /\ IF rec_pc = "failed"
       THEN main_pc' = "raised" /\ UNCHANGED log
       ELSE /\ main_pc' = "returned"
            /\ log' = log \o
                  <<Ev("course", "share", session_id, "-"),
                    Ev("course", "return_result", task_id,
                       ResultStatus(main_result))>>
    /\ UNCHANGED <<flow, session_id, task_id, sessions, tasks>>
    /\ UNCHANGED csVars
    /\ UNCHANGED <<tlVars, baVars, vdVars, vcVars>>
    /\ UNCHANGED coVars
    /\ UNCHANGED <<mon_pc, mon_end, mon_result, cancel_req, elapsed, inbox,
                   last_poll, last_task_id, main_result>>

\* LiveVideoRecorder.record_live_session, seen from execute_course: the
\* recording task runs, and ends with a value or with an exception
RecordingStep ==
    /\ flow = "course"
    /\ \/ rec_pc = "scheduled" /\ rec_pc' = "running"
       \/ rec_pc = "running" /\ rec_pc' \in {"done", "failed"}
    /\ UNCHANGED <<flow, session_id, task_id, sessions, tasks>>
    /\ UNCHANGED csVars
    /\ UNCHANGED <<tlVars, baVars, vdVars, vcVars>>
    /\ UNCHANGED <<course_index, video_url>>
    /\ UNCHANGED exVars

\* first step of the monitor task, up to messages.list (lines 58-62)
CourseMonStart ==
    /\ flow = "course"
    /\ mon_pc = "scheduled"
    /\ elapsed' = 0
    /\ mon_pc' = IF CourseInboxLoopGoesOn(0) THEN "await_list" ELSE "done"
    /\ UNCHANGED <<flow, session_id, task_id, sessions, tasks>>
    /\ UNCHANGED csVars
    /\ UNCHANGED <<tlVars, baVars, vdVars, vcVars>>
    /\ UNCHANGED coVars
    /\ UNCHANGED <<main_pc, mon_end, mon_result, cancel_req, inbox,
                   last_poll, last_task_id, main_result, log>>

\* messages.list answered (lines 62-64, 95): an exception of the call ends
\* the monitor task with that exception
CourseMonList ==
    /\ flow = "course"
    /\ mon_pc = "await_list"
    /\ \/ /\ mon_pc' = "done"
          /\ mon_end' = "error"
          /\ elapsed' = 0
       \/ /\ mon_pc' = IF inbox = "empty" THEN "sleep" ELSE "await_get"
          /\ UNCHANGED <<mon_end, elapsed>>
    /\ UNCHANGED <<flow, session_id, task_id, sessions, tasks>>
    /\ UNCHANGED csVars
    /\ UNCHANGED <<tlVars, baVars, vdVars, vcVars>>
    /\ UNCHANGED coVars
    /\ UNCHANGED <<main_pc, mon_result, cancel_req, inbox,
                   last_poll, last_task_id, main_result, log>>

\* messages.get answered (lines 66-95): the LLM is asked; a URL is returned,
\* anything else (also an exception of the LLM call) leads to the sleep
CourseMonGet ==
    /\ flow = "course"
    /\ mon_pc = "await_get"
    /\ \E llm \in LlmAnswers :
          IF IsVerificationUrl(llm)
          THEN /\ mon_pc' = "done"
               /\ mon_result' = "url"
               /\ mon_end' = "normal"
               /\ elapsed' = 0
          ELSE /\ mon_pc' = "sleep"
               /\ UNCHANGED <<mon_result, mon_end, elapsed>>
    /\ UNCHANGED <<flow, session_id, task_id, sessions, tasks>>
    /\ UNCHANGED csVars
    /\ UNCHANGED <<tlVars, baVars, vdVars, vcVars>>
    /\ UNCHANGED coVars
    /\ UNCHANGED <<main_pc, cancel_req, inbox,
                   last_poll, last_task_id, main_result, log>>

\* asyncio.sleep(3) is over: the while condition is read again (line 61);
\* when it fails the monitor returns None (line 97)
CourseMonWake ==
    /\ flow = "course"
    /\ mon_pc = "sleep"
    /\ \E d \in 0..MaxLatency :
          /\ elapsed' = elapsed + CourseInboxInterval + d
          /\ IF CourseInboxLoopGoesOn(elapsed')
             THEN /\ mon_pc' = "await_list"
                  /\ UNCHANGED <<mon_result, mon_end>>
             ELSE /\ mon_pc' = "done"
                  /\ mon_result' = "None"
                  /\ mon_end' = "normal"
    /\ UNCHANGED <<flow, session_id, task_id, sessions, tasks>>
    /\ UNCHANGED csVars
    /\ UNCHANGED <<tlVars, baVars, vdVars, vcVars>>
    /\ UNCHANGED coVars
    /\ UNCHANGED <<main_pc, cancel_req, inbox,
                   last_poll, last_task_id, main_result, log>>

NextCourse ==
    \/ CourseDelay \/ CourseSignup \/ WaitForTask \/ CourseAfterMonitor
    \/ CourseFinish \/ RecordingStep
    \/ CourseMonStart \/ CourseMonList \/ CourseMonGet \/ CourseMonWake

----------------------------------------------------------------------------
(* HeyGenGenerator._wait_for_video *)

MaxWait == 300         \* _wait_for_video(max_wait=300)
VideoInterval == 5     \* asyncio.sleep(5), also after a failed status check

\* GET /v1/video_status.get: the status reported, or a failed request
VideoReplies == {"processing", "nostatus", "completed", "failed", "error"}

\* the while condition of _wait_for_video
VideoLoopGoesOnLate(t) == t <= MaxWait
VideoLoopGoesOn(t) == t < MaxWait

InitHeyGen ==
    /\ flow = "heygen"
    /\ TlIdle
    /\ BaIdle
    /\ VdIdle
    /\ VcIdle
    /\ session_id = None
    /\ task_id = None
    /\ sessions = <<>>
    /\ tasks = <<>>
    /\ CsIdle
    /\ ExIdle
    /\ CoIdle

\* lines 124-127: the loop is entered and sleeps
WaitForVideoStart ==
    /\ flow = "heygen"
    /\ main_pc = "idle"
    /\ main_pc' = IF VideoLoopGoesOn(0) THEN "video_sleep" ELSE "done"
    /\ video_url' = IF VideoLoopGoesOn(0) THEN video_url ELSE "None"
    /\ UNCHANGED <<flow, session_id, task_id, sessions, tasks>>
    /\ UNCHANGED csVars
    /\ UNCHANGED <<tlVars, baVars, vdVars, vcVars>>
    /\ UNCHANGED <<course_index, rec_pc>>
    /\ UNCHANGED <<mon_pc, mon_end, mon_result, cancel_req, elapsed, inbox,
                   last_poll, last_task_id, main_result, log>>

\* lines 127-157: the sleep is over, the status is fetched; 'completed'
\* returns the URL, 'failed' returns None, a failed request leads to a
\* second sleep, anything else to the while condition, which ends the call
\* with None once max_wait has passed
WaitForVideoPoll ==
    /\ flow = "heygen"
    /\ main_pc = "video_sleep"
    /\ \E d \in 0..MaxLatency : \E reply \in VideoReplies :
          /\ elapsed' = elapsed + VideoInterval + d
          /\ last_poll' = [task |-> None, status |-> reply]
          /\ IF reply = "completed"
             THEN main_pc' = "done" /\ video_url' = "url"
             ELSE IF reply = "failed"
             THEN main_pc' = "done" /\ video_url' = "None"
             ELSE IF reply = "error"
             THEN main_pc' = "video_sleep_err" /\ UNCHANGED video_url
             ELSE IF VideoLoopGoesOn(elapsed')
             THEN main_pc' = "video_sleep" /\ UNCHANGED video_url
             ELSE main_pc' = "done" /\ video_url' = "None"
    /\ UNCHANGED <<flow, session_id, task_id, sessions, tasks>>
    /\ UNCHANGED csVars
    /\ UNCHANGED <<tlVars, baVars, vdVars, vcVars>>
    /\ UNCHANGED <<course_index, rec_pc>>
    /\ UNCHANGED <<mon_pc, mon_end, mon_result, cancel_req, inbox,
                   last_task_id, main_result, log>>

\* lines 154, 126, 156-157: the sleep after a failed status check is over
WaitForVideoBackoff ==
    /\ flow = "heygen"
    /\ main_pc = "video_sleep_err"
    /\ \E d \in 0..MaxLatency :
          /\ elapsed' = elapsed + VideoInterval + d
          /\ IF VideoLoopGoesOn(elapsed')
             THEN main_pc' = "video_sleep" /\ UNCHANGED video_url
             ELSE main_pc' = "done" /\ video_url' = "None"
    /\ UNCHANGED <<flow, session_id, task_id, sessions, tasks>>
    /\ UNCHANGED csVars
    /\ UNCHANGED <<tlVars, baVars, vdVars, vcVars>>
    /\ UNCHANGED <<course_index, rec_pc>>
    /\ UNCHANGED <<mon_pc, mon_end, mon_result, cancel_req, inbox,
                   last_poll, last_task_id, main_result, log>>

NextHeyGen == WaitForVideoStart \/ WaitForVideoPoll \/ WaitForVideoBackoff

----------------------------------------------------------------------------
(* LiveVideoRecorder._monitor_task_completion, as record_live_session      *)
(* calls it for execute_course.  elapsed is time.time() - start_time as    *)
(* the while condition last read it.                                       *)

EstimatedDuration == 120   \* execute_course: estimated_duration=120
RecordingMargin == 60      \* max_wait=estimated_duration + 60
RecordInterval == 5        \* asyncio.sleep(5)

\* line 83: the max_wait record_live_session passes
RecordMaxWait(estimated_duration) == estimated_duration + RecordingMargin

\* GET /tasks/{task_id}: a status with HTTP 200, another HTTP status, or an
\* exception of the request
RecordReplies == {"started", "paused", "finished", "stopped", "failed",
                  "non200", "raise"}

\* line 136
RecordEndsOnFinishedOnly(status) == status = "finished"
RecordEndsOn(status) == status \in {"finished", "stopped", "failed"}

\* the while condition of _monitor_task_completion
RecordLoopGoesOn(t) == t < RecordMaxWait(EstimatedDuration)

InitRecord ==
    /\ flow = "record"
    /\ TlIdle
    /\ BaIdle
    /\ VdIdle
    /\ VcIdle
    /\ session_id = None
    /\ task_id = None
    /\ sessions = <<>>
    /\ tasks = <<>>
    /\ CsIdle
    /\ ExIdle
    /\ CoIdle

\* lines 119-123: the loop is entered and sleeps
RecordMonitorStart ==
    /\ flow = "record"
    /\ main_pc = "idle"
    /\ main_pc' = IF RecordLoopGoesOn(0) THEN "record_sleep" ELSE "done"
    /\ UNCHANGED <<flow, session_id, task_id, sessions, tasks>>
    /\ UNCHANGED csVars
    /\ UNCHANGED <<tlVars, baVars, vdVars, vcVars>>
    /\ UNCHANGED coVars
    /\ UNCHANGED <<mon_pc, mon_end, mon_result, cancel_req, elapsed, inbox,
                   last_poll, last_task_id, main_result, log>>

\* lines 122-148: the sleep is over and the status is fetched; a terminal
\* status leads to the sleep for the final frames, anything else (also a
\* non-200 answer or an exception) to the while condition, which ends the
\* call once max_wait has passed
RecordMonitorPoll ==
    /\ flow = "record"
    /\ main_pc = "record_sleep"
    /\ \E d \in 0..MaxLatency : \E reply \in RecordReplies :
          /\ elapsed' = elapsed + RecordInterval + d
          /\ last_poll' = [task |-> None, status |-> reply]
          /\ main_pc' = IF RecordEndsOn(reply) THEN "final_frames"
                        ELSE IF RecordLoopGoesOn(elapsed') THEN "record_sleep"
                        ELSE "done"
    /\ UNCHANGED <<flow, session_id, task_id, sessions, tasks>>
    /\ UNCHANGED csVars
    /\ UNCHANGED <<tlVars, baVars, vdVars, vcVars>>
    /\ UNCHANGED coVars
    /\ UNCHANGED <<mon_pc, mon_end, mon_result, cancel_req, inbox,
                   last_task_id, main_result, log>>

\* lines 138-139: asyncio.sleep(3) is over, the call returns
RecordMonitorReturn ==
    /\ flow = "record"
    /\ main_pc = "final_frames"
    /\ main_pc' = "done"
    /\ UNCHANGED <<flow, session_id, task_id, sessions, tasks>>
    /\ UNCHANGED csVars
    /\ UNCHANGED <<tlVars, baVars, vdVars, vcVars>>
    /\ UNCHANGED coVars
    /\ UNCHANGED <<mon_pc, mon_end, mon_result, cancel_req, elapsed, inbox,
                   last_poll, last_task_id, main_result, log>>

NextRecord == RecordMonitorStart \/ RecordMonitorPoll \/ RecordMonitorReturn

----------------------------------------------------------------------------
(* CourseExecutor.execute_all_courses: the batch of course workflows.  Each *)
(* workflow is execute_course for one course, followed here from await to  *)
(* await only as far as the batch can tell: the staggered start, the POST  *)
(* of its signup session, and how it ends.                                 *)

StaggerSeconds == 10   \* delay = course_index * 10

\* the clock is followed up to the time the last staggered start is due
BatchHorizon == MaxCourses * StaggerSeconds

\* lines 413-416: how long execute_course sleeps before its signup session
StaggerNone(index) == 0
StaggerDelay(index) == index * StaggerSeconds

\* what a workflow ends with: the dict execute_course returns, or the
\* exception object it raises (told apart by the course that raised it; an
\* exception object has no 'status')
WorkflowStatuses == {"finished", "failed"}
ResultDict(index, status) ==
    [kind |-> "dict", course_index |-> index, status |-> status]
ResultException(index) ==
    [kind |-> "exception", course_index |-> index]

NoWorkflow == [pc |-> "none", started |-> 0, wake |-> 0, outcome |-> <<>>]

\* asyncio.gather(*tasks, return_exceptions=True): the results in the order
\* of the awaitables passed, whatever the order they ended in
GatherByCompletion(w, order) == [i \in DOMAIN w |-> w[order[i + 1]].outcome]
GatherResults(w, order) == [i \in DOMAIN w |-> w[i].outcome]

WorkflowEnded(w) == w.pc \in {"returned", "raised"}

InitBatch ==
    /\ flow = "batch"
    /\ session_id = None
    /\ task_id = None
    /\ sessions = <<>>
    /\ tasks = <<>>
    /\ CsIdle
    /\ ExIdle
    /\ CoIdle
    /\ TlIdle
    /\ VdIdle
    /\ VcIdle
    /\ batch_pc = "start"
    /\ prepared = 0
    /\ \E n \in 0..MaxCourses : wf = [i \in 0..(n - 1) |-> NoWorkflow]
    /\ now = 0
    /\ created = <<>>
    /\ finished = <<>>
    /\ results = <<>>

\* lines 570-584, or 570-648 for an empty batch: up to the first await.
\* gather() of nothing is done at once and the empty list is returned.
BatchStart ==
    /\ flow = "batch"
    /\ batch_pc = "start"
    /\ IF DOMAIN wf = {}
       THEN /\ batch_pc' = "returned"
            /\ results' = GatherResults(wf, finished)
       ELSE /\ batch_pc' = "prepare"
            /\ UNCHANGED results
    /\ UNCHANGED <<flow, session_id, task_id, sessions, tasks>>
    /\ UNCHANGED <<csVars, exVars, coVars, tlVars, vdVars, vcVars>>
    /\ UNCHANGED <<prepared, wf, now, created, finished>>

\* lines 584-602: inboxes.create() for course `prepared` is answered.  Its
\* exception leaves execute_all_courses; otherwise the coroutine of the
\* course is made (not started), and after the last course gather() turns
\* the coroutines into tasks.
BatchPrepare ==
    /\ flow = "batch"
    /\ batch_pc = "prepare"
    /\ \/ /\ batch_pc' = "raised"
          /\ UNCHANGED <<prepared, wf>>
       \/ /\ wf' = [wf EXCEPT ![prepared].pc = "coroutine"]
          /\ prepared' = prepared + 1
          /\ batch_pc' = IF prepared' = Cardinality(DOMAIN wf)
                         THEN "gather" ELSE "prepare"
    /\ UNCHANGED <<flow, session_id, task_id, sessions, tasks>>
    /\ UNCHANGED <<csVars, exVars, coVars, tlVars, vdVars, vcVars>>
    /\ UNCHANGED <<now, created, finished, results>>

\* lines 418-454 of execute_course, seen from the batch: the signup session
\* is POSTed; an exception of _create_session or _create_task ends the
\* workflow, otherwise it runs on
SignupSession(i) ==
    \/ /\ wf' = [wf EXCEPT ![i].pc = "raised",
                           ![i].started = IF wf[i].pc = "coroutine" THEN now ELSE @,
                           ![i].outcome = ResultException(i)]
       /\ finished' = Append(finished, i)
       /\ UNCHANGED created
    \/ /\ created' = Append(created, [course |-> i, at |-> now])
       /\ \/ /\ wf' = [wf EXCEPT ![i].pc = "raised",
                           ![i].started = IF wf[i].pc = "coroutine" THEN now ELSE @,
                           ![i].outcome = ResultException(i)]
             /\ finished' = Append(finished, i)
          \/ /\ wf' = [wf EXCEPT ![i].pc = "running",
                           ![i].started = IF wf[i].pc = "coroutine" THEN now ELSE @]
             /\ UNCHANGED finished

\* the tasks gather() made take their first step in the order of the list
FirstStepDue(i) ==
    /\ wf[i].pc = "coroutine"
    /\ \A j \in DOMAIN wf : j < i => wf[j].pc # "coroutine"

\* the timer of asyncio.sleep(delay) is due; timers that are due run in the
\* order of their deadlines
TimerDue(i) ==
    /\ wf[i].pc = "delay"
    /\ now >= wf[i].wake
    /\ \A j \in DOMAIN wf : wf[j].pc # "coroutine"
    /\ \A j \in DOMAIN wf : wf[j].pc = "delay" => wf[j].wake >= wf[i].wake

\* lines 403-416 (and on to 454 for the first course): first step of the
\* workflow of course i
WorkflowStart ==
    /\ flow = "batch"
    /\ batch_pc = "gather"
    /\ \E i \in DOMAIN wf :
          /\ FirstStepDue(i)
          /\ IF i > 0
             THEN /\ wf' = [wf EXCEPT ![i].pc = "delay",
                                      ![i].started = now,
                                      ![i].wake = now + StaggerDelay(i)]
                  /\ UNCHANGED <<created, finished>>
             ELSE SignupSession(i)
    /\ UNCHANGED <<flow, session_id, task_id, sessions, tasks>>
    /\ UNCHANGED <<csVars, exVars, coVars, tlVars, vdVars, vcVars>>
    /\ UNCHANGED <<batch_pc, prepared, now, results>>

\* lines 416-454: the staggered sleep of course i is over
WorkflowWake ==
    /\ flow = "batch"
    /\ batch_pc = "gather"
    /\ \E i \in DOMAIN wf :
          /\ TimerDue(i)
          /\ SignupSession(i)
    /\ UNCHANGED <<flow, session_id, task_id, sessions, tasks>>
    /\ UNCHANGED <<csVars, exVars, coVars, tlVars, vdVars, vcVars>>
    /\ UNCHANGED <<batch_pc, prepared, now, results>>

\* lines 454-561: the rest of the workflow of course i; it returns its
\* result dict or raises
WorkflowEnd ==
    /\ flow = "batch"
    /\ batch_pc = "gather"
    /\ \E i \in DOMAIN wf :
          /\ wf[i].pc = "running"
          /\ \A j \in DOMAIN wf : wf[j].pc # "coroutine"
          /\ \/ \E st \in WorkflowStatuses :
                   wf' = [wf EXCEPT ![i].pc = "returned",
                                    ![i].outcome = ResultDict(i, st)]
             \/ wf' = [wf EXCEPT ![i].pc = "raised",
                                 ![i].outcome = ResultException(i)]
          /\ finished' = Append(finished, i)
    /\ UNCHANGED <<flow, session_id, task_id, sessions, tasks>>
    /\ UNCHANGED <<csVars, exVars, coVars, tlVars, vdVars, vcVars>>
    /\ UNCHANGED <<batch_pc, prepared, now, created, results>>

\* lines 602-648: every awaitable of gather() is done; the list of results
\* is returned
BatchCollect ==
    /\ flow = "batch"
    /\ batch_pc = "gather"
    /\ \A i \in DOMAIN wf : WorkflowEnded(wf[i])
    /\ results' = GatherResults(wf, finished)
    /\ batch_pc' = "returned"
    /\ UNCHANGED <<flow, session_id, task_id, sessions, tasks>>
    /\ UNCHANGED <<csVars, exVars, coVars, tlVars, vdVars, vcVars>>
    /\ UNCHANGED <<prepared, wf, now, created, finished>>

\* time passes, in an await or in a blocking call of some coroutine
BatchTick ==
    /\ flow = "batch"
    /\ batch_pc \in {"prepare", "gather"}
    /\ now < BatchHorizon
    /\ now' = now + TickSeconds
    /\ UNCHANGED <<flow, session_id, task_id, sessions, tasks>>
    /\ UNCHANGED <<csVars, exVars, coVars, tlVars, vdVars, vcVars>>
    /\ UNCHANGED <<batch_pc, prepared, wf, created, finished, results>>

NextBatch ==
    \/ BatchStart \/ BatchPrepare \/ WorkflowStart \/ WorkflowWake
    \/ WorkflowEnd \/ BatchCollect \/ BatchTick

----------------------------------------------------------------------------
(* VideoComposer._compose_with_ffmpeg and _build_overlay_filter.  Times are *)
(* counted in half milliseconds, so that int(start * 1000) has a fraction  *)
(* to cut off.  The filter graph is the sequence of its filters, each with *)
(* the numbers the f-strings put into it.                                  *)

MsPerSecond == 1000          \* start_ms = int(start * 1000)
Seconds(n) == n * 2 * MsPerSecond

Missing == -1                \* a key the segment dict does not have
DefaultIntroDuration == 12   \* intro_duration = 12.0
DefaultStartTime == 0        \* segment.get('start_time', 0)
DefaultDuration == 5         \* segment.get('duration', 5)
FallbackDuration == 5        \* _get_video_duration: return 5.0

\* dict.get(key, default)
Get(value, default) == IF value = Missing THEN default ELSE value

\* lines 190-193
StartOfNoIntro(segment, intro_duration) ==
    Get(segment.start_time, Seconds(DefaultStartTime))
StartOf(segment, intro_duration) ==
    Get(segment.start_time, Seconds(DefaultStartTime)) + intro_duration
DurationOf(segment) == Get(segment.duration, Seconds(DefaultDuration))
StartMs(start) == start \div 2

\* lines 196-205: the three filters of narration segment i (counted from 0)
SegmentFilters(i, segment, intro_duration) ==
    LET input_idx == i + 2
        start == StartOf(segment, intro_duration)
        duration == DurationOf(segment)
        end == start + duration
        start_ms == StartMs(start)
    IN << [kind |-> "video", out |-> i, input |-> input_idx, setpts |-> start],
          [kind |-> "audio", out |-> i, input |-> input_idx,
           atrim |-> duration, adelay |-> <<start_ms, start_ms>>],
          [kind |-> "overlay", out |-> i, base |-> i - 1, over |-> i,
           from |-> start, to |-> end] >>

RECURSIVE OverlayFiltersFrom(_, _, _)
OverlayFiltersFrom(i, segments, intro_duration) ==
    IF i >= Len(segments) THEN <<>>
    ELSE SegmentFilters(i, segments[i + 1], intro_duration)
            \o OverlayFiltersFrom(i + 1, segments, intro_duration)

\* _build_overlay_filter (lines 173-216); base -1 of an overlay is [basev]
BuildOverlayFilter(segments, intro_duration, browser_has_audio) ==
    << [kind |-> "concat_v", out |-> -1],
       [kind |-> IF browser_has_audio THEN "concat_a" ELSE "acopy", out |-> -1] >>
    \o OverlayFiltersFrom(0, segments, intro_duration)
    \o << [kind |-> "format", out |-> -1, input |-> Len(segments) - 1],
          [kind |-> "amix", out |-> -1, inputs |-> 1 + Len(segments)] >>

\* lines 121-124: the duration of a segment that has a video file is
\* replaced by what ffprobe reports (5.0 when its output is no number)
MeasuredSegment(segment, probe) ==
    IF segment.video_file = "none" THEN segment
    ELSE [segment EXCEPT !.duration = Get(probe, Seconds(FallbackDuration))]

\* lines 131-140: the inputs of the ffmpeg command after intro and browser
\* recording: the segments that have a video file, by position in the list
NarrationInputs(segments) ==
    SelectSeq([i \in 1..Len(segments) |->
                  IF segments[i].video_file = "none" THEN -1 ELSE i - 1],
              LAMBDA x : x >= 0)

\* the narration segments explored
SegmentKinds ==
    [start_time : {Missing, Seconds(3) + 1},
     duration   : {Missing, Seconds(4)},
     video_file : {"none", "file"}]
ProbeAnswers == {Missing, Seconds(2) + 1}
SegmentLists == UNION {[1..n -> SegmentKinds] : n \in 0..MaxSegments}
IntroLengths == {Seconds(DefaultIntroDuration), Seconds(10)}

InitCompose ==
    /\ flow = "compose"
    /\ session_id = None
    /\ task_id = None
    /\ sessions = <<>>
    /\ tasks = <<>>
    /\ CsIdle
    /\ ExIdle
    /\ CoIdle
    /\ TlIdle
    /\ BaIdle
    /\ VdIdle
    /\ narration_segments \in SegmentLists
    /\ \E intro \in IntroLengths : \E audio \in BOOLEAN :
       \E probe \in [1..Len(narration_segments) -> ProbeAnswers] :
          /\ \A i \in DOMAIN probe :
                narration_segments[i].video_file = "none" => probe[i] = Missing
          /\ compose_in = [intro |-> intro, browser_has_audio |-> audio,
                           probe |-> probe]
    /\ filters = <<>>
    /\ cmd = <<>>
    /\ compose_out = "pending"
    /\ composing = <<>>
    /\ output_dir = EmptyDir

\* _compose_with_ffmpeg (lines 75-171): without narration segments intro and
\* browser recording are concatenated; otherwise the durations are measured,
\* the filter graph and the command are built and ffmpeg is run, and a
\* failed run falls back to the concatenation
ComposeWithFfmpeg ==
    /\ flow = "compose"
    /\ compose_out = "pending"
    /\ IF narration_segments = <<>>
       THEN /\ compose_out' = "concatenated"
            /\ UNCHANGED <<narration_segments, filters, cmd>>
       ELSE LET measured == [i \in DOMAIN narration_segments |->
                               MeasuredSegment(narration_segments[i],
                                               compose_in.probe[i])]
                intro_duration == Seconds(DefaultIntroDuration)
            IN /\ narration_segments' = measured
               /\ filters' = BuildOverlayFilter(measured, intro_duration,
                                                compose_in.browser_has_audio)
               /\ cmd' = <<"intro", "browser">> \o NarrationInputs(measured)
               /\ \E returncode \in {0, 1} :
                     compose_out' = IF returncode = 0 THEN "overlay"
                                    ELSE "concatenated"
    /\ UNCHANGED <<flow, session_id, task_id, sessions, tasks>>
    /\ UNCHANGED <<csVars, exVars, coVars, tlVars, baVars, vdVars>>
    /\ UNCHANGED <<compose_in, composing, output_dir>>

NextCompose == ComposeWithFfmpeg

----------------------------------------------------------------------------
(* VideoComposer.compose_video: the calls running on one VideoComposer,    *)
(* followed from one awaited subprocess to the next.  Call c composes the  *)
(* intro c and the browser recording c into its own output file, final[c]. *)
(* A video file is known by the intro and the recording it holds; for      *)
(* temp_browser.mp4 and concat_list.txt the directory tells whose          *)
(* recording, or whose list, the file holds (0: no such file).  A          *)
(* subprocess reads and writes its files when it ends.                     *)

\* lines 61-72: what compose_video returns
ComposeResultAlwaysPath(raised, exists) == "path"
ComposeResult(raised, exists) == IF ~raised /\ exists THEN "path" ELSE "None"

NewCall(narration) ==
    [pc |-> "start", narration |-> narration, ran |-> <<>>,
     raised |-> FALSE, result |-> "pending"]

\* an ffmpeg run of the call that writes the output file ended
Ran(call, what) == [call EXCEPT !.ran = Append(@, what)]

\* lines 61-72: _compose_with_ffmpeg returned or raised, compose_video
\* looks for its output file and returns
Returns(c, call, raised, dir) ==
    [call EXCEPT !.pc = "done", !.raised = raised,
                 !.result = ComposeResult(raised, dir.final[c] # NoVideo)]

\* lines 280-291: concat_list.txt is written and the concat run started;
\* open() or the start of the subprocess can raise
WriteListAndConcat(c, call, dir) ==
    LET listed == [dir EXCEPT !.concat_list = c]
    IN { <<[call EXCEPT !.pc = "sc_concat"], listed>>,
         <<Returns(c, call, TRUE, listed), listed>>,
         <<Returns(c, call, TRUE, dir), dir>> }

\* lines 264-278: _simple_concatenate converts the recording only when
\* there is no temp_browser.mp4
SimpleConcatenate(c, call, dir) ==
    IF dir.temp_browser = 0
    THEN { <<[call EXCEPT !.pc = "sc_convert"], dir>>,
           <<Returns(c, call, TRUE, dir), dir>> }
    ELSE WriteListAndConcat(c, call, dir)

InitVideo ==
    /\ flow = "video"
    /\ session_id = None
    /\ task_id = None
    /\ sessions = <<>>
    /\ tasks = <<>>
    /\ CsIdle
    /\ ExIdle
    /\ CoIdle
    /\ TlIdle
    /\ BaIdle
    /\ VdIdle
    /\ compose_in = <<>>
    /\ narration_segments = <<>>
    /\ filters = <<>>
    /\ cmd = <<>>
    /\ compose_out = "pending"
    /\ \E n \in 1..MaxCalls :
          /\ composing \in [1..n -> {NewCall(b) : b \in BOOLEAN}]
          /\ output_dir = [EmptyDir EXCEPT !.final = [c \in 1..n |-> NoVideo]]

VideoStep(c, p) ==
    /\ composing' = [composing EXCEPT ![c] = p[1]]
    /\ output_dir' = p[2]
    /\ UNCHANGED <<flow, session_id, task_id, sessions, tasks>>
    /\ UNCHANGED <<csVars, exVars, coVars, tlVars, baVars, vdVars>>
    /\ UNCHANGED <<compose_in, narration_segments, filters, cmd, compose_out>>

\* lines 41-105: up to the first awaited subprocess: without narration
\* segments _simple_concatenate is entered, otherwise the conversion of
\* the recording to temp_browser.mp4 is started
ComposeStart(c) ==
    /\ flow = "video"
    /\ composing[c].pc = "start"
    /\ \E p \in IF ~composing[c].narration
                 THEN SimpleConcatenate(c, composing[c], output_dir)
                 ELSE { <<[composing[c] EXCEPT !.pc = "convert"], output_dir>>,
                        <<Returns(c, composing[c], TRUE, output_dir), output_dir>> } :
          VideoStep(c, p)

\* lines 101-118: the conversion ended (temp_browser.mp4 holds the
\* recording of this call if it succeeded); ffprobe is started
ConvertDone(c) ==
    /\ flow = "video"
    /\ composing[c].pc = "convert"
    /\ \E ok \in BOOLEAN :
       LET dir == IF ok THEN [output_dir EXCEPT !.temp_browser = c]
                  ELSE output_dir
           call == composing[c]
       IN \E p \in { <<[call EXCEPT !.pc = "probe"], dir>>,
                      <<Returns(c, call, TRUE, dir), dir>> } :
             VideoStep(c, p)

\* lines 118-158: the ffprobe runs ended (audio stream, durations), the
\* filter and the command are built and the overlay run is started
ProbeDone(c) ==
    /\ flow = "video"
    /\ composing[c].pc = "probe"
    /\ LET call == composing[c]
       IN \E p \in { <<[call EXCEPT !.pc = "overlay"], output_dir>>,
                      <<Returns(c, call, TRUE, output_dir), output_dir>> } :
             VideoStep(c, p)

\* lines 160-171: the overlay run ended; it can only succeed with a
\* temp_browser.mp4 to read, and then wrote the output from the intro of
\* the call and that file.  temp_browser.mp4 is removed; a failed run
\* enters _simple_concatenate
OverlayDone(c) ==
    /\ flow = "video"
    /\ composing[c].pc = "overlay"
    /\ \E returncode \in {0, 1} :
       /\ returncode = 0 => output_dir.temp_browser # 0
       /\ LET written ==
                 IF returncode = 0
                 THEN [output_dir EXCEPT
                          !.final[c] = [intro |-> c,
                                        browser |-> output_dir.temp_browser]]
                 ELSE output_dir
              cleaned == [written EXCEPT !.temp_browser = 0]
              call == Ran(composing[c],
                          IF returncode = 0 THEN "overlay" ELSE "overlay_failed")
          IN \E p \in IF returncode = 0
                       THEN { <<Returns(c, call, FALSE, cleaned), cleaned>> }
                       ELSE SimpleConcatenate(c, call, cleaned) :
                VideoStep(c, p)

\* lines 266-291: the conversion of _simple_concatenate ended
ScConvertDone(c) ==
    /\ flow = "video"
    /\ composing[c].pc = "sc_convert"
    /\ \E ok \in BOOLEAN :
       LET dir == IF ok THEN [output_dir EXCEPT !.temp_browser = c]
                  ELSE output_dir
       IN \E p \in WriteListAndConcat(c, composing[c], dir) :
             VideoStep(c, p)

\* lines 288-298 and 61-72: the concat run ended; it can only succeed with
\* the list and the file the list names, and then wrote the output from
\* the intro named in the list and temp_browser.mp4.  Both intermediate
\* files are removed and compose_video returns
ScConcatDone(c) ==
    /\ flow = "video"
    /\ composing[c].pc = "sc_concat"
    /\ \E returncode \in {0, 1} :
       /\ returncode = 0 =>
             output_dir.temp_browser # 0 /\ output_dir.concat_list # 0
       /\ LET written ==
                 IF returncode = 0
                 THEN [output_dir EXCEPT
                          !.final[c] = [intro |-> output_dir.concat_list,
                                        browser |-> output_dir.temp_browser]]
                 ELSE output_dir
              cleaned == [written EXCEPT !.temp_browser = 0, !.concat_list = 0]
          IN VideoStep(c, <<Returns(c, Ran(composing[c], "concat"), FALSE, cleaned),
                            cleaned>>)

NextVideo ==
    \E c \in DOMAIN composing :
       \/ ComposeStart(c) \/ ConvertDone(c) \/ ProbeDone(c) \/ OverlayDone(c)
       \/ ScConvertDone(c) \/ ScConcatDone(c)

----------------------------------------------------------------------------
(* ProductExplorer.get_verification_data: what is returned for a message   *)
(* (lines 92-129).  The LLM answer is a string of characters.  The body is *)
(* the sequence of its words, the maximal runs of word characters, each    *)
(* with its length and whether it is all digits; two words are one         *)
(* character apart.  A value cut out of the body is given by where it is:  *)
(* the position of the word, or the length of the prefix.                  *)

TextLimit == 1000     \* email_body[:1000]

RECURSIVE LStrip(_)
LStrip(s) == IF s # <<>> /\ Head(s) = " " THEN LStrip(Tail(s)) ELSE s
RECURSIVE RStrip(_)
RStrip(s) ==
    IF s # <<>> /\ s[Len(s)] = " " THEN RStrip(SubSeq(s, 1, Len(s) - 1)) ELSE s
\* str.strip()
Strip(s) == RStrip(LStrip(s))

\* str.startswith(prefix)
StartsWith(s, prefix) ==
    Len(s) >= Len(prefix) /\ SubSeq(s, 1, Len(prefix)) = prefix

\* line 114, for the stripped answer
IsLink(extracted_url) ==
    /\ extracted_url # <<>>
    /\ extracted_url # <<"N", "O", "N", "E">>
    /\ StartsWith(extracted_url, <<"h", "t", "t", "p">>)

\* line 121: the lengths of the codes looked for, in this order
CodePatternsShortFirst == <<4, 6>>
CodePatterns == <<6, 4>>

\* re.search(r'\b(\d{n})\b', email_body): the position of the first word
\* that is exactly n digits, 0 without one
FirstMatch(email_body, n) ==
    LET hits == {k \in DOMAIN email_body :
                    email_body[k].digits /\ email_body[k].chars = n}
    IN IF hits = {} THEN 0 ELSE CHOOSE k \in hits : \A j \in hits : k <= j

\* lines 122-127: the first pattern, from pattern number p on, that matches
RECURSIVE FirstCode(_, _)
FirstCode(email_body, p) ==
    IF p > Len(CodePatterns) THEN 0
    ELSE IF FirstMatch(email_body, CodePatterns[p]) # 0
    THEN FirstMatch(email_body, CodePatterns[p])
    ELSE FirstCode(email_body, p + 1)

\* len(email_body)
RECURSIVE CharsOf(_)
CharsOf(email_body) ==
    IF email_body = <<>> THEN 0
    ELSE IF Len(email_body) = 1 THEN email_body[1].chars
    ELSE email_body[1].chars + 1 + CharsOf(Tail(email_body))

\* len(email_body[:1000])
Truncated(chars) == IF chars < TextLimit THEN chars ELSE TextLimit

\* lines 98-129.  llm is the outcome of the LLM call: it raised, or it
\* answered with content
VerificationData(llm, email_body) ==
    IF ~llm.raised /\ IsLink(Strip(llm.content))
    THEN [type |-> "link", value |-> Strip(llm.content)]
    ELSE IF FirstCode(email_body, 1) # 0
    THEN [type |-> "code", value |-> FirstCode(email_body, 1)]
    ELSE [type |-> "text", value |-> Truncated(CharsOf(email_body))]

\* the LLM outcomes and the message bodies explored
LlmContents ==
    { <<"h", "t", "t", "p", ":">>, <<" ", "h", "t", "t", "p", ":", " ">>,
      <<"N", "O", "N", "E">>, <<>>, <<" ">>, <<"f", "t", "p", ":">>,
      <<"H", "T", "T", "P">> }
LlmOutcomes ==
    {[raised |-> FALSE, content |-> c] : c \in LlmContents}
        \cup {[raised |-> TRUE, content |-> <<>>]}
Words ==
    { [chars |-> 6, digits |-> TRUE], [chars |-> 4, digits |-> TRUE],
      [chars |-> 7, digits |-> TRUE], [chars |-> 6, digits |-> FALSE],
      [chars |-> 1500, digits |-> FALSE] }
Bodies == UNION {[1..n -> Words] : n \in 0..MaxWords}

\* the outcome and the body as the exploration flow tells them apart
LlmClass(llm) ==
    IF llm.raised THEN "raise"
    ELSE IF Strip(llm.content) = <<>> THEN "empty"
    ELSE IF Strip(llm.content) = <<"N", "O", "N", "E">> THEN "NONE"
    ELSE IF StartsWith(Strip(llm.content), <<"h", "t", "t", "p">>) THEN "url"
    ELSE "nonhttp"
BodyClass(email_body) ==
    IF FirstMatch(email_body, 6) # 0 THEN "code6"
    ELSE IF FirstMatch(email_body, 4) # 0 THEN "code4"
    ELSE "plain"

InitVerify ==
    /\ flow = "verify"
    /\ session_id = None
    /\ task_id = None
    /\ sessions = <<>>
    /\ tasks = <<>>
    /\ CsIdle
    /\ ExIdle
    /\ CoIdle
    /\ TlIdle
    /\ BaIdle
    /\ VcIdle
    /\ \E llm \in LlmOutcomes : \E email_body \in Bodies :
          vd_in = [llm |-> llm, email_body |-> email_body]
    /\ vd_out = <<>>
    /\ cli = <<>>

\* get_verification_data finds the message in the inbox and returns
GetVerificationData ==
    /\ flow = "verify"
    /\ vd_out = <<>>
    /\ vd_out' = VerificationData(vd_in.llm, vd_in.email_body)
    /\ UNCHANGED <<flow, session_id, task_id, sessions, tasks>>
    /\ UNCHANGED <<csVars, exVars, coVars, tlVars, baVars, vcVars>>
    /\ UNCHANGED <<vd_in, cli>>

NextVerify == GetVerificationData

----------------------------------------------------------------------------
(* explore.py: explore_product_cli, the pipeline of stages.  The coroutine   *)
(* awaits explore_product and execute_all_courses; demo generation, the     *)
(* saving of results and MDX generation block.  log holds what the run did, *)
(* in order.                                                                *)

\* product_explorer.py line 656: 'success': result.get('status') == 'finished'
Success(status) == status = "finished"

\* line 124: if generate_demos and result['success']
DemosWantedAnyStatus(generate_demos, result) == generate_demos
DemosWanted(generate_demos, result) == generate_demos /\ Success(result)

Did(l, op) == Append(l, Ev("cli", op, None, "-"))

InitCli ==
    /\ flow = "cli"
    /\ session_id = None
    /\ task_id = None
    /\ sessions = <<>>
    /\ tasks = <<>>
    /\ CsIdle
    /\ ExIdle
    /\ CoIdle
    /\ TlIdle
    /\ BaIdle
    /\ VcIdle
    /\ vd_in = <<>>
    /\ vd_out = <<>>
    /\ \E url_ok \in BOOLEAN : \E demos \in BOOLEAN : \E courses \in BOOLEAN :
          cli = [url_ok |-> url_ok, generate_demos |-> demos,
                 execute_courses |-> courses, result |-> "pending",
                 exit |-> "running"]

CliStep ==
    /\ UNCHANGED <<flow, session_id, task_id, sessions, tasks>>
    /\ UNCHANGED <<csVars, coVars, tlVars, baVars, vcVars>>
    /\ UNCHANGED <<vd_in, vd_out>>
    /\ UNCHANGED <<mon_pc, mon_end, mon_result, cancel_req, elapsed, inbox,
                   last_poll, last_task_id, main_result>>

\* lines 61-102: an invalid URL returns at once; otherwise the explorer is
\* made and explore_product awaited
CliStart ==
    /\ flow = "cli"
    /\ main_pc = "idle"
    /\ IF ~cli.url_ok
       THEN /\ main_pc' = "done"
            /\ cli' = [cli EXCEPT !.exit = "returned"]
            /\ UNCHANGED log
       ELSE /\ main_pc' = "cli_explore"
            /\ log' = Did(log, "explore")
            /\ UNCHANGED cli
    /\ CliStep

\* lines 213-240 and 242-244: the stages after execute_all_courses: the
\* results are saved, then the MDX content is generated inside its own
\* try; what raises before that is reported as failed course execution
AfterCourses(l, raised) ==
    IF raised THEN {Did(l, "courses_failed")}
    ELSE {Did(l, "courses_failed"),
          Did(Did(Did(l, "results_saved"), "mdx"), "mdx_done"),
          Did(Did(Did(l, "results_saved"), "mdx"), "mdx_failed")}

\* lines 102-254: explore_product returned (it has saved the exploration)
\* or raised.  An exception ends the run with sys.exit(1).  Otherwise the
\* demos are generated and saved if wanted, and then, if asked for,
\* execute_all_courses is awaited; an exception of the demo stage is
\* reported and the function returns
CliAfterExplore ==
    /\ flow = "cli"
    /\ main_pc = "cli_explore"
    /\ \/ /\ main_pc' = "done"                  \* explore_product raised
          /\ log' = Did(log, "exploration_failed")
          /\ cli' = [cli EXCEPT !.exit = "exit1"]
       \/ \E status \in TerminalStatuses :
          LET saved == Did(log, "exploration_saved")
              returned == [cli EXCEPT !.result = status, !.exit = "returned"]
          IN IF ~DemosWanted(cli.generate_demos, status)
             THEN /\ main_pc' = "done"
                  /\ log' = saved
                  /\ cli' = returned
             ELSE \/ /\ main_pc' = "done"        \* generate or save raised
                     /\ log' \in {Did(Did(saved, "demos"), "demos_failed")}
                     /\ cli' = returned
                  \/ /\ ~cli.execute_courses
                     /\ main_pc' = "done"
                     /\ log' = Did(Did(saved, "demos"), "demos_saved")
                     /\ cli' = returned
                  \/ /\ cli.execute_courses
                     /\ main_pc' = "cli_courses"
                     /\ log' = Did(Did(Did(saved, "demos"), "demos_saved"),
                                   "courses")
                     /\ cli' = [cli EXCEPT !.result = status]
    /\ CliStep

\* lines 181-254: execute_all_courses returned or raised; the function
\* returns after the stages that follow
CliAfterCourses ==
    /\ flow = "cli"
    /\ main_pc = "cli_courses"
    /\ main_pc' = "done"
    /\ \E raised \in BOOLEAN : log' \in AfterCourses(log, raised)
    /\ cli' = [cli EXCEPT !.exit = "returned"]
    /\ CliStep

NextCli == CliStart \/ CliAfterExplore \/ CliAfterCourses

----------------------------------------------------------------------------

vars == <<flow, session_id, task_id, sessions, tasks, cs_in, cs_out,
          main_pc, mon_pc, mon_end, mon_result, cancel_req, elapsed, inbox,
          last_poll, last_task_id, main_result, log, course_index, rec_pc,
          video_url, capture_timeline, last_step_count, timeline,
          batch_pc, prepared, wf, now, created, finished, results,
          vd_in, vd_out, cli, compose_in, narration_segments, filters, cmd,
          compose_out, composing, output_dir>>

Init ==
    \/ InitSession \/ InitExplore \/ InitCourse \/ InitHeyGen
    \/ InitBatch \/ InitCompose \/ InitVerify \/ InitRecord \/ InitVideo
    \/ InitCli

Next ==
    \/ CallCreateSession
    \/ NextExplore
    \/ NextCourse
    \/ NextHeyGen
    \/ NextBatch
    \/ NextCompose
    \/ NextVerify
    \/ NextRecord
    \/ NextVideo
    \/ NextCli
    \/ ApiTaskEnds
    \/ ApiStepMade
    \/ MailArrives

Spec == Init /\ [][Next]_vars

\* The event loop runs every coroutine that is ready, and an awaited call or
\* sleep comes back.  Nothing makes the browser agent end a task or a mail
\* arrive.
MainStep ==
    \/ ExploreStart \/ ExploreSetup \/ PollTask \/ PollBackoff \/ FinishExplore
    \/ CourseDelay \/ CourseSignup \/ WaitForTask \/ CourseAfterMonitor
    \/ CourseFinish
    \/ WaitForVideoStart \/ WaitForVideoPoll \/ WaitForVideoBackoff
    \/ RecordMonitorStart \/ RecordMonitorPoll \/ RecordMonitorReturn
    \/ CliStart \/ CliAfterExplore \/ CliAfterCourses
MonitorStep ==
    \/ MonStart \/ MonList \/ MonWake \/ MonGet \/ MonCancelled \/ LoopShutdown
    \/ CourseMonStart \/ CourseMonList \/ CourseMonGet \/ CourseMonWake

FairSpec ==
    /\ Spec
    /\ WF_vars(MainStep)
    /\ WF_vars(MonitorStep)
    /\ WF_vars(RecordingStep)

----------------------------------------------------------------------------
(* create_session: retry on HTTP 429 *)

CsCalled == flow = "session" /\ cs_out # NotCalled

\* the first POST that is not answered with HTTP 429, or retries + 1
FirstNot429(rs, retries) ==
    IF \E k \in 1..retries : rs[k] # "http429"
    THEN CHOOSE k \in 1..retries :
            rs[k] # "http429" /\ \A j \in 1..(k - 1) : rs[j] = "http429"
    ELSE retries + 1

\* C4: create_session makes at most `retries` POSTs; the k-th POST answered
\* with 429 is followed by a sleep of k*15 s; the first successful POST ends
\* the call, which returns and sets session_id to the new session; when all
\* `retries` POSTs are answered with 429 the call raises.
C4_RetryOn429 ==
    CsCalled =>
      LET f == FirstNot429(cs_in.resps, cs_in.retries) IN
      /\ cs_out.posts <= cs_in.retries
      /\ \A k \in 1..cs_out.posts :
            cs_in.resps[k] = "http429" =>
               k <= Len(cs_out.sleeps) /\ cs_out.sleeps[k] = k * 15
      /\ (f <= cs_in.retries /\ cs_in.resps[f] = "ok") =>
            /\ cs_out.outcome = "returned"
            /\ cs_out.posts = f
            /\ session_id = Len(sessions)
            /\ session_id # cs_in.prior
            /\ sessions[session_id] = "live"
      /\ (f = cs_in.retries + 1) =>
            /\ cs_out.outcome = "raised_exhausted"
            /\ cs_out.posts = cs_in.retries

C4_Witness ==
    /\ CsCalled
    /\ cs_in.resps = <<"http429", "http429", "ok">>
    /\ cs_out.sleeps = <<15, 30>>
    /\ cs_out.outcome = "returned"

\* C5: only HTTP 429 is retried: the first POST answered with another HTTP
\* error, or failing with another exception, is the last one; the error is
\* raised with no sleep after it and session_id keeps its prior value.
C5_OnlyRetry429 ==
    CsCalled =>
      LET f == FirstNot429(cs_in.resps, cs_in.retries) IN
      (f <= cs_in.retries /\ cs_in.resps[f] \in {"http_other", "exc"}) =>
         /\ cs_out.outcome =
               (IF cs_in.resps[f] = "http_other" THEN "raised_http" ELSE "raised_exc")
         /\ cs_out.posts = f
         /\ Len(cs_out.sleeps) = f - 1
         /\ session_id = cs_in.prior
         /\ Len(sessions) = cs_in.prior

C5_Witness ==
    /\ CsCalled
    /\ cs_in.resps = <<"http429", "http_other", "ok">>
    /\ cs_in.prior = 1
    /\ cs_out.outcome = "raised_http"
    /\ cs_out.posts = 2

----------------------------------------------------------------------------
(* explore_product: the hand-off of session and task *)

ByMonitor(e) == e.by = "monitor"
ByMain(e) == e.by = "main"
MonLog == SelectSeq(log, ByMonitor)
MainLog == SelectSeq(log, ByMain)

HandoffOps == <<"stop_session", "create_session", "set_session_id",
                "set_session_id", "create_task", "set_task_id", "set_task_id">>

HandoffDone == flow = "explore" /\ Len(MonLog) = Len(HandoffOps)

\* C6: on a result of type 'link' the monitor stops the current session,
\* then creates a session starting at the link, then creates a task in that
\* new session, then sets task_id to the new task, in this order; on any
\* other result, or none, it stops and creates nothing and session_id and
\* task_id stay as the main flow set them.
C6_HandoffOrder ==
    flow = "explore" =>
      LET m == MonLog IN
      /\ Len(m) <= Len(HandoffOps)
      /\ \A i \in 1..Len(m) : m[i].op = HandoffOps[i]
      /\ (mon_result = "link" /\ mon_pc = "done") => Len(m) >= 1
      /\ Len(m) >= 1 =>
            /\ mon_result = "link"
            /\ m[1].arg = 1
            /\ Len(MainLog) >= 5 /\ MainLog[2] = Ev("main", "set_session_id", 1, "-")
      /\ Len(m) >= 2 =>
            /\ m[2].url = "link" /\ m[2].arg = 2
            /\ session_id = 2 /\ Len(sessions) = 2
      /\ Len(m) >= 5 => m[5].arg = m[2].arg /\ m[5].url = "link"
      /\ Len(m) = Len(HandoffOps) =>
            /\ task_id = m[7].arg
            /\ task_id = Len(tasks)
            /\ tasks[task_id].session = session_id
            /\ mon_end = "normal"
      /\ mon_result # "link" =>
            /\ m = <<>>
            /\ Len(sessions) <= 1 /\ Len(tasks) <= 1
            /\ \A i \in DOMAIN sessions : sessions[i] = "live"
            /\ session_id = Len(sessions)
            /\ task_id = Len(tasks)

C6_Witness ==
    /\ HandoffDone
    /\ mon_pc = "done"
    /\ sessions = <<"stopped", "live">>
    /\ session_id = 2
    /\ task_id = 2

\* C7: after a completed hand-off every poll of wait_for_task_completion
\* asks for the new task; the task data returned is that of the task named
\* by task_id at the return, so the ended old task is never returned after a
\* hand-off; task_id keeps the id the hand-off wrote.
C7_PollerFollowsHandoff ==
    /\ [](flow = "explore" =>
            /\ main_result # NoPoll => main_result.task = task_id
            /\ HandoffDone => task_id = MonLog[7].arg /\ task_id # MainLog[5].arg
            /\ (HandoffDone /\ main_result # NoPoll) =>
                  /\ main_result.task = 2
                  /\ tasks[main_result.task].session = session_id)
    /\ [][(HandoffDone /\ main_pc = "sleep"
              /\ <<last_poll, main_pc>>' # <<last_poll, main_pc>>)
            => last_poll'.task = task_id /\ last_poll'.task = 2]_vars

C7_Witness ==
    /\ HandoffDone
    /\ main_pc = "returned"
    /\ tasks[1].status = "stopped"
    /\ main_result.task = 2
    /\ main_result.status = "finished"

\* who wrote an attribute after the monitor task was created
Writers(op) ==
    {log[i].by : i \in {j \in 1..Len(log) :
         /\ log[j].op = op
         /\ \E k \in 1..(j - 1) : log[k].op = "create_monitor_task"}}

\* C8 as stated: while the main flow and the monitor both exist, neither
\* session_id nor task_id is written by both of them.
C8_SingleWriter ==
    \A op \in {"set_session_id", "set_task_id"} : Cardinality(Writers(op)) <= 1

\* C8 as amended: session_id and task_id are written by both the main flow
\* and the monitor, but the main flow makes all its writes before the
\* monitor takes its first step; no write of the main flow follows an
\* action of the monitor.
C8_WritesOrdered ==
    flow = "explore" =>
      /\ \A i \in 1..Len(log) : \A j \in (i + 1)..Len(log) :
            (log[i].by = "monitor" /\ log[j].by = "main") =>
               log[j].op \notin {"set_session_id", "set_task_id"}
      /\ mon_pc \in {"none", "scheduled"} => MonLog = <<>>
      /\ mon_pc \notin {"none", "scheduled"} =>
            Len(SelectSeq(log, ByMain)) >= 5 \/ main_pc = "raised"

C8_Witness ==
    /\ flow = "explore"
    /\ Writers("set_task_id") = {"main", "monitor"}
    /\ main_pc = "returned"

\* C9: when wait_for_task_completion returns while the monitor runs, the
\* monitor is cancelled and awaited before the share link is requested;
\* explore_product does not raise; after the return the monitor stops no
\* session and creates no session and no task.
C9_MonitorCancelled ==
    /\ [](flow = "explore" =>
            /\ (\E i \in 1..Len(log) : log[i].op = "share") =>
                  mon_pc = "done" /\ ~cancel_req
            /\ main_result # NoPoll => main_pc \in {"await_monitor", "returned"}
            /\ main_pc = "await_monitor" =>
                  (cancel_req /\ mon_pc # "done") \/ mon_end = "cancelled"
            /\ main_pc = "returned" => mon_pc = "done")
    /\ [][(flow = "explore" /\ main_result # NoPoll) =>
             /\ MonLog' = MonLog
             /\ sessions' = sessions
             /\ Len(tasks') = Len(tasks)
             /\ <<session_id, task_id>>' = <<session_id, task_id>>]_vars

C9_Witness ==
    /\ flow = "explore"
    /\ main_pc = "returned"
    /\ mon_end = "cancelled"
    /\ log[Len(log)].op = "share"

----------------------------------------------------------------------------
(* The polling loops *)

TaskLoop ==
    \/ flow = "explore" /\ main_pc \in {"sleep", "sleep_err"}
    \/ flow = "course" /\ main_pc \in {"signup_sleep", "course_sleep"}
InboxLoop ==
    flow \in {"explore", "course"} /\ mon_pc \in {"await_list", "await_get", "sleep"}
VideoLoop == flow = "heygen" /\ main_pc \in {"video_sleep", "video_sleep_err"}

\* C1: wait_for_task_completion and _wait_for_task return only on a poll
\* that reports 'finished', 'stopped' or 'failed', on the first such poll
\* and with the data of that poll; while they loop, no poll has reported a
\* terminal status.
C1_ReturnOnTerminal ==
    flow \in {"explore", "course"} =>
      /\ main_result # NoPoll =>
            /\ main_result.status \in TerminalStatuses
            /\ main_result = last_poll
            /\ tasks[main_result.task].status = main_result.status
      /\ last_poll.status \in TerminalStatuses => main_result = last_poll
      /\ TaskLoop => main_result = NoPoll
      /\ main_pc \in {"await_monitor", "await_video"} => main_result # NoPoll
      /\ (flow = "explore" /\ main_pc = "returned") => main_result # NoPoll

C1_Witness ==
    /\ flow = "course"
    /\ main_pc = "await_video"
    /\ main_result = [task |-> 2, status |-> "failed"]
    /\ last_poll = main_result

C3_TimeoutReturnsNone ==
    /\ flow \in {"explore", "course"} =>
          /\ elapsed >= 90 =>
                mon_pc = "done" /\ mon_result = "None" /\ mon_end = "normal"
          /\ mon_result = "None" =>
                elapsed >= 90 /\ mon_pc = "done" /\ mon_end = "normal"
          /\ (flow = "course" /\ mon_result = "None" /\ main_pc = "raised") =>
                last_poll.status = "error"
    /\ flow = "heygen" =>
          /\ main_pc = "done" =>
                /\ video_url \in {"url", "None"}
                /\ video_url = "url" <=> last_poll.status = "completed"
          /\ (main_pc = "done" /\ last_poll.status \notin {"completed", "failed"}) =>
                elapsed >= 300 /\ video_url = "None"
          /\ (elapsed >= 300 /\ main_pc # "video_sleep_err") => main_pc = "done"

C3_Witness ==
    /\ flow = "explore"
    /\ mon_result = "None"
    /\ mon_end = "normal"
    /\ elapsed >= 90
    /\ main_pc = "sleep"
    /\ MonLog = <<>>

\* C10 as stated: whenever execute_course has ended, by a return or by an
\* exception, its email-monitor task has completed or was never started.
C10_MonitorNeverOutlives ==
    (flow = "course" /\ main_pc \in {"returned", "raised"}) =>
       mon_pc \in {"none", "done"}

----------------------------------------------------------------------------
(* execute_all_courses: the batch *)

BatchGathering == flow = "batch" /\ batch_pc = "gather"
BatchReturned == flow = "batch" /\ batch_pc = "returned"

\* C11: execute_all_courses launches one workflow per course, all of them
\* running concurrently, and returns only after every workflow has returned
\* or raised; an exception raised in the workflow of one course changes
\* nothing about the workflow of any other course (it neither cancels it
\* nor keeps it from starting and ending by itself); the list returned has
\* exactly one entry per course and entry i is the result (the dict, or the
\* exception) of course i.
C11_BatchGather ==
    /\ [](BatchGathering =>
            \A i \in DOMAIN wf : wf[i].pc # "none")
    /\ [](BatchReturned =>
            /\ DOMAIN results = DOMAIN wf
            /\ Len(finished) = Cardinality(DOMAIN wf)
            /\ \A i \in DOMAIN wf :
                  /\ WorkflowEnded(wf[i])
                  /\ results[i].course_index = i
                  /\ results[i] = wf[i].outcome
                  /\ (results[i].kind = "exception") = (wf[i].pc = "raised"))
    /\ [][flow = "batch" =>
            \A i, j \in DOMAIN wf :
               (i # j /\ wf[i].pc # "raised" /\ wf'[i].pc = "raised")
                  => wf'[j] = wf[j]]_vars

\* a batch of two courses was returned in which the second course ended
\* first, with an exception, and the first course ended after it with the
\* status 'finished'
C11_Witness ==
    /\ BatchReturned
    /\ Cardinality(DOMAIN wf) = 2
    /\ finished = <<1, 0>>
    /\ results[1].kind = "exception"
    /\ results[0].kind = "dict"
    /\ results[0].status = "finished"

\* C12: when creating the inbox of course k raises in execute_all_courses,
\* course k is reported as failed and every other course of the batch is
\* still executed and reported: execute_all_courses does not end before the
\* workflows of the other courses have ended.
C12_SkipFailedPreparation ==
    (flow = "batch" /\ batch_pc = "raised") =>
        \A i \in DOMAIN wf : i # prepared => WorkflowEnded(wf[i])

\* C20: execute_course with course_index i creates its signup session no
\* earlier than i*10 seconds after its first step (at its first step for
\* i = 0), and within one batch the signup sessions are created in the
\* order of the course indices.
C20_StaggeredStart ==
    flow = "batch" =>
        /\ \A k \in 1..Len(created) :
              created[k].at >= wf[created[k].course].started
                                  + created[k].course * StaggerSeconds
        /\ \A k \in 1..Len(created) :
              created[k].course = 0 =>
                 created[k].at = wf[created[k].course].started
        /\ \A k, l \in 1..Len(created) :
              k < l => created[k].course < created[l].course

\* both courses of a batch of two have their signup session, the second one
\* made 10 s or more after the first
C20_Witness ==
    /\ flow = "batch"
    /\ Len(created) = 2
    /\ created[1].course = 0
    /\ created[2].course = 1
    /\ created[2].at >= created[1].at + StaggerSeconds

----------------------------------------------------------------------------
(* _wait_for_task: the timeline *)

CourseWaitReturned ==
    flow = "course" /\ main_pc \in {"await_video", "returned"} /\ rec_pc # "none"

\* C13: with capture_timeline=True and a step list of the task that only
\* grows, the timeline of _wait_for_task holds exactly one event per step
\* the polls have shown, in step order, no step twice and none left out; on
\* return that is one event per step of the step list of the last poll (the
\* one that reports the terminal status); the time offsets of the events
\* never decrease; with capture_timeline=False the timeline is empty.
C13_TimelineCapture ==
    flow = "course" =>
        /\ Len(timeline) = last_step_count
        /\ \A k \in 1..Len(timeline) : timeline[k].step_number = k
        /\ \A k, l \in 1..Len(timeline) :
              k < l => timeline[k].t_offset_s <= timeline[l].t_offset_s
        /\ (CourseWaitReturned /\ capture_timeline) =>
              Len(timeline) = tasks[task_id].steps
        /\ ~capture_timeline => timeline = <<>>

\* _wait_for_task returned a timeline of two steps that were logged by two
\* different polls
C13_Witness ==
    /\ CourseWaitReturned
    /\ capture_timeline
    /\ Len(timeline) = 2
    /\ timeline[1].t_offset_s < timeline[2].t_offset_s

----------------------------------------------------------------------------
(* VideoComposer: the overlay filter *)

FiltersOf(f, kind, i) == {k \in DOMAIN f : f[k].kind = kind /\ f[k].out = i}

\* start_time and duration of a segment dict, with the defaults of 0 s and
\* 5 s for a key that is not there
SegmentStart(segment) ==
    IF segment.start_time = Missing THEN 0 ELSE segment.start_time
SegmentDuration(segment) ==
    IF segment.duration = Missing THEN Seconds(5) ELSE segment.duration

Composed == flow = "compose" /\ compose_out # "pending" /\ narration_segments # <<>>

\* C14: for every narration segment i with start_time s (default 0) and
\* duration d (default 5) and every intro duration D, the filter graph of
\* _build_overlay_filter holds exactly one overlay for i, enabled between
\* s+D and s+D+d, exactly one video filter for i, which shifts the video by
\* s+D, and exactly one audio filter for i, which trims the audio to d and
\* delays both channels by floor((s+D)*1000) milliseconds.
C14_OverlayFilter ==
    Composed =>
        /\ filters = BuildOverlayFilter(narration_segments,
                                        Seconds(DefaultIntroDuration),
                                        compose_in.browser_has_audio)
        /\ \A D \in IntroLengths \cup {0, 1} :
           LET f == BuildOverlayFilter(narration_segments, D,
                                       compose_in.browser_has_audio)
           IN \A i \in 0..(Len(narration_segments) - 1) :
              LET s == SegmentStart(narration_segments[i + 1])
                  d == SegmentDuration(narration_segments[i + 1])
              IN /\ Cardinality(FiltersOf(f, "overlay", i)) = 1
                 /\ Cardinality(FiltersOf(f, "video", i)) = 1
                 /\ Cardinality(FiltersOf(f, "audio", i)) = 1
                 /\ \A k \in FiltersOf(f, "overlay", i) :
                       f[k].from = s + D /\ f[k].to = s + D + d
                 /\ \A k \in FiltersOf(f, "video", i) : f[k].setpts = s + D
                 /\ \A k \in FiltersOf(f, "audio", i) :
                       /\ f[k].atrim = d
                       /\ f[k].adelay[1] = f[k].adelay[2]
                       /\ 2 * f[k].adelay[1] <= s + D
                       /\ s + D < 2 * f[k].adelay[1] + 2

\* a filter graph was built for a segment without start_time and duration
\* followed by a segment that starts a fraction of a millisecond after 3 s
C14_Witness ==
    /\ Composed
    /\ Len(narration_segments) = 2
    /\ narration_segments[1].start_time = Missing
    /\ narration_segments[1].duration = Missing
    /\ narration_segments[2].start_time = Seconds(3) + 1

\* C15: in the composed video the overlay of a narration segment with
\* start_time s begins s seconds after the browser recording begins, that
\* is at (duration of the intro video passed to compose_video) + s, for
\* every intro duration.
C15_AlignedToRecording ==
    (Composed /\ compose_out = "overlay") =>
        \A i \in 0..(Len(narration_segments) - 1) :
           \A k \in FiltersOf(filters, "overlay", i) :
              filters[k].from
                 = compose_in.intro + SegmentStart(narration_segments[i + 1])

----------------------------------------------------------------------------
(* get_verification_data: the result for a message *)

SixDigitWords(email_body) ==
    {k \in DOMAIN email_body : email_body[k] = [chars |-> 6, digits |-> TRUE]}
FourDigitWords(email_body) ==
    {k \in DOMAIN email_body : email_body[k] = [chars |-> 4, digits |-> TRUE]}

AnswerIsUrl(llm) ==
    /\ ~llm.raised
    /\ \E k \in 1..Len(llm.content) :
          /\ \A j \in 1..(k - 1) : llm.content[j] = " "
          /\ k + 3 <= Len(llm.content)
          /\ llm.content[k] = "h" /\ llm.content[k + 1] = "t"
          /\ llm.content[k + 2] = "t" /\ llm.content[k + 3] = "p"

Verified == flow = "verify" /\ vd_out # <<>>

\* C16: get_verification_data returns on the first poll that finds a
\* message in the inbox and never polls again after it; the result for the
\* message is {'type':'link'} if the LLM answered, and its answer is not
\* empty, not 'NONE' and starts with 'http'; otherwise (also when the LLM
\* call raised) {'type':'code'} with the first 6-digit number of the body,
\* or without one the first 4-digit number; otherwise {'type':'text'} with
\* the first 1000 characters of the body.
C16_VerificationData ==
    /\ [](Verified =>
          LET llm == vd_in.llm
              email_body == vd_in.email_body
              six == SixDigitWords(email_body)
              four == FourDigitWords(email_body)
          IN /\ vd_out.type \in {"link", "code", "text"}
             /\ (vd_out.type = "link") = AnswerIsUrl(llm)
             /\ (vd_out.type = "code") =
                   (~AnswerIsUrl(llm) /\ six \cup four # {})
             /\ (vd_out.type = "code" /\ six # {}) =>
                   (vd_out.value \in six /\ \A k \in six : vd_out.value <= k)
             /\ (vd_out.type = "code" /\ six = {}) =>
                   (vd_out.value \in four /\ \A k \in four : vd_out.value <= k)
             /\ vd_out.type = "text" =>
                   /\ vd_out.value <= 1000
                   /\ vd_out.value <= CharsOf(email_body)
                   /\ vd_out.value = 1000 \/ vd_out.value = CharsOf(email_body)
             /\ vd_out.type =
                   VerificationType(LlmClass(llm), BodyClass(email_body)))
    /\ [][flow = "explore" =>
            /\ (mon_pc = "await_list" /\ mon_pc' = "sleep") => inbox = "empty"
            /\ (mon_pc = "await_list" /\ inbox # "empty" /\ ~cancel_req
                   /\ mon_pc' # mon_pc /\ mon_end' # "error")
                  => mon_pc' = "await_get"
            /\ mon_pc = "await_get" => mon_pc' \in {"await_get", "done"}
            /\ (mon_pc = "await_get" /\ mon_pc' = "done" /\ ~cancel_req)
                  => mon_result' \in {"link", "code", "text"}]_vars

\* the LLM answered NONE and the body is a 4-digit number followed by a
\* 6-digit number: the 6-digit number is returned
C16_Witness ==
    /\ Verified
    /\ LlmClass(vd_in.llm) = "NONE"
    /\ Len(vd_in.email_body) = 2
    /\ vd_in.email_body[1] = [chars |-> 4, digits |-> TRUE]
    /\ vd_in.email_body[2] = [chars |-> 6, digits |-> TRUE]
    /\ vd_out = [type |-> "code", value |-> 2]

----------------------------------------------------------------------------
(* wait_for_task_completion: errors of the status check *)

\* a step of the exploration in which wait_for_task_completion polled
PollStep ==
    /\ flow = "explore"
    /\ main_pc = "sleep"
    /\ (main_pc' # main_pc \/ last_poll' # last_poll)

\* C17: in wait_for_task_completion a status GET that raises or answers
\* with an HTTP error does not end the loop and raises nothing: the loop
\* sleeps 5 more seconds and then goes back to its sleep and its poll,
\* however many polls fail in a row, and a later poll that reports a
\* terminal status still returns at once.
C17_PollErrorSurvived ==
    [][/\ PollStep => main_pc' # "raised"
       /\ (PollStep /\ last_poll'.status = "error") =>
             /\ main_pc' = "sleep_err"
             /\ main_result' = main_result
       /\ (flow = "explore" /\ main_pc = "sleep_err") =>
             main_pc' \in {"sleep_err", "sleep"}
       /\ (PollStep /\ last_poll'.status \in TerminalStatuses) =>
             /\ main_pc' \in {"returned", "await_monitor"}
             /\ main_result' = last_poll']_vars

\* a status check failed although the task had ended: the loop is in its
\* extra sleep, and the next poll can return
C17_Witness ==
    /\ flow = "explore"
    /\ main_pc = "sleep_err"
    /\ last_poll = [task |-> task_id, status |-> "error"]
    /\ tasks[task_id].status \in TerminalStatuses

----------------------------------------------------------------------------
(* execute_course without a verification URL *)

Ops(l) == [k \in DOMAIN l |-> l[k].op]

\* execute_course got the result of its email monitor and went on
AfterMonitorAwait ==
    /\ flow = "course"
    /\ mon_pc = "done"
    /\ mon_end = "normal"
    /\ main_pc \in {"course_sleep", "await_video", "returned"}

\* C18: when the email monitor yields no verification URL, execute_course
\* sends the stop of the signup session and returns the result with status
\* 'failed' and error 'No verification email'; it creates no second session
\* and no course task and starts no video recording.
C18_NoUrlFails ==
    (AfterMonitorAwait /\ mon_result = "None") =>
        /\ main_pc = "returned"
        /\ Ops(log) = <<"create_session", "create_task", "create_monitor_task",
                        "stop_session", "return_failed">>
        /\ log[4].arg = log[1].arg
        /\ Len(sessions) = 1
        /\ Len(tasks) = 1
        /\ rec_pc = "none"
        /\ session_id = log[1].arg

\* execute_course returned the failed result after its monitor had timed
\* out; the stop request reached the signup session
C18_Witness ==
    /\ AfterMonitorAwait
    /\ mon_result = "None"
    /\ main_pc = "returned"
    /\ sessions = <<"stopped">>

----------------------------------------------------------------------------
(* _monitor_verification_email: the 90-second window *)

CourseMonPolling ==
    flow = "course" /\ mon_pc \in {"await_list", "await_get", "sleep"}

CourseMonReturned ==
    flow = "course" /\ mon_pc = "done" /\ mon_end = "normal"

\* one step of the course monitor, seen from its position
CourseMonStepOk ==
    /\ (mon_pc = "await_get" /\ mon_pc' # "await_get") =>
          \/ mon_pc' = "sleep" /\ mon_result' = mon_result
          \/ mon_pc' = "done" /\ mon_result' = "url"
    /\ (mon_pc = "sleep" /\ mon_pc' # "sleep") =>
          /\ elapsed' >= elapsed + CourseInboxInterval
          /\ elapsed' < CourseVerifyTimeout =>
                mon_pc' = "await_list" /\ mon_result' = mon_result
          /\ elapsed' >= CourseVerifyTimeout =>
                mon_pc' = "done" /\ mon_result' = "None"
    /\ mon_pc = "done" =>
          mon_pc' = "done" /\ mon_result' = mon_result /\ mon_end' = mon_end

\* C19: _monitor_verification_email returns only a URL or None.  While the
\* newest message yields no URL (the LLM answers 'NONE', an empty or a
\* non-http text, or raises) the monitor goes to its 3-second sleep and, the
\* 90 seconds counted from its own start not yet over, lists the inbox
\* again; it never polls once the 90 seconds are over and then returns
\* None.  What it has returned stays: mail arriving after the window is not
\* looked at, whatever the signup task does.
C19_MonitorWindow ==
    /\ [](CourseMonReturned => mon_result \in {"url", "None"})
    /\ [](CourseMonPolling => elapsed < CourseVerifyTimeout)
    /\ []((CourseMonReturned /\ mon_result = "None") =>
             elapsed >= CourseVerifyTimeout)
    /\ [][flow = "course" => CourseMonStepOk]_vars

\* the monitor has returned None after its window, mail is in the inbox
\* now, and execute_course is still waiting for the signup task
C19_Witness ==
    /\ CourseMonReturned
    /\ mon_result = "None"
    /\ inbox # "empty"
    /\ main_pc = "signup_sleep"
    /\ tasks[task_id].status = "started"

----------------------------------------------------------------------------
(* explore_product: the pair (self.session_id, self.task_id) *)

\* the main flow of explore_product is suspended and the poller or the
\* monitor can run
ExploreAwaiting ==
    /\ flow = "explore"
    /\ main_pc \in {"sleep", "sleep_err", "await_monitor"}

\* C25 as stated: at every await point of the exploration self.task_id names
\* a task created in the session self.session_id names, also after a
\* hand-off in which a request failed.
C25_TaskInSession ==
    (ExploreAwaiting /\ task_id # None) =>
        /\ session_id # None
        /\ tasks[task_id].session = session_id

\* the requests for sessions and tasks the monitor sent
MonitorCreates(op) ==
    Cardinality({k \in DOMAIN log : log[k].by = "monitor" /\ log[k].op = op})

\* C26: explore_product creates at most two sessions and at most two tasks,
\* the initial pair and at most one replacement pair: the email monitor
\* asks at most once for a new session and for a new task, and once it has
\* ended it stays ended.
C26_OneHandoff ==
    /\ [](flow = "explore" =>
             /\ Len(sessions) <= 2
             /\ Len(tasks) <= 2
             /\ MonitorCreates("create_session") <= 1
             /\ MonitorCreates("create_task") <= 1)
    /\ [][(flow = "explore" /\ mon_pc = "done") => mon_pc' = "done"]_vars

\* the exploration returned after a complete hand-off
C26_Witness ==
    /\ flow = "explore"
    /\ main_pc = "returned"
    /\ Len(sessions) = 2
    /\ Len(tasks) = 2
    /\ mon_result = "link"
    /\ mon_end = "normal"

----------------------------------------------------------------------------
(* LiveVideoRecorder._monitor_task_completion *)

RecordLoop == flow = "record" /\ main_pc \in {"record_sleep", "final_frames"}
RecordReturned == flow = "record" /\ main_pc = "done"

\* C21: _monitor_task_completion always terminates.  It returns after the
\* first poll that reports 'finished', 'stopped' or 'failed'; any other
\* answer, a non-200 answer and a request exception included, is ignored
\* and it sleeps again while less than max_wait = estimated_duration + 60
\* seconds have passed; it returns once max_wait has passed, which it
\* notices at most one poll (the 5-second sleep and its request) later.
C21_RecorderMonitorEnds ==
    /\ RecordLoop ~> RecordReturned
    /\ []((flow = "record" /\ main_pc = "record_sleep") =>
             /\ elapsed < EstimatedDuration + 60
             /\ last_poll.status \notin {"finished", "stopped", "failed"})
    /\ []((flow = "record" /\ main_pc = "final_frames") =>
             last_poll.status \in {"finished", "stopped", "failed"})
    /\ []((RecordReturned /\ last_poll.status \notin {"finished", "stopped", "failed"}) =>
             /\ elapsed >= EstimatedDuration + 60
             /\ elapsed < EstimatedDuration + 60 + RecordInterval + MaxLatency)
    /\ [][(flow = "record" /\ main_pc = "record_sleep") =>
             /\ last_poll'.status \in {"finished", "stopped", "failed"} =>
                   main_pc' = "final_frames"
             /\ (last_poll'.status \in {"started", "paused", "non200", "raise"}
                   /\ elapsed' < EstimatedDuration + 60) =>
                   main_pc' = "record_sleep"]_vars

\* the call returned on its timeout after a poll whose request failed
C21_Witness ==
    /\ RecordReturned
    /\ elapsed >= EstimatedDuration + 60
    /\ last_poll.status = "raise"

----------------------------------------------------------------------------
(* execute_course: the end of the course phase *)

\* what execute_course did so far, by request
CourseDid(op) == \E k \in DOMAIN log : log[k].by = "course" /\ log[k].op = op

\* C22: execute_course asks for the share link and produces its result only
\* after the course task was polled with a terminal status and the
\* recording task has ended; the status of the result is the status of
\* that poll of the course task, the task created in the course session.
C22_ResultAfterBoth ==
    (flow = "course" /\ (CourseDid("share") \/ CourseDid("return_result"))) =>
        /\ rec_pc = "done"
        /\ main_pc = "returned"
        /\ last_poll.task = task_id
        /\ IsTerminal(last_poll.status)
        /\ tasks[task_id].session = session_id
        /\ session_id # log[1].arg
        /\ log[Len(log) - 1] = Ev("course", "share", session_id, "-")
        /\ log[Len(log)] = Ev("course", "return_result", task_id, last_poll.status)

\* a course whose signup task finished and whose course task failed has
\* returned its result
C22_Witness ==
    /\ flow = "course"
    /\ CourseDid("return_result")
    /\ log[Len(log)].url = "failed"
    /\ tasks[1].status = "finished"

\* a stop request was sent for session sid
StopSent(sid) ==
    \E k \in DOMAIN log : log[k].op = "stop_session" /\ log[k].arg = sid

\* C27 as stated: when execute_course has returned, every session it
\* created has been sent a stop request.
C27_EverySessionStopped ==
    (flow = "course" /\ main_pc = "returned") =>
        \A sid \in DOMAIN sessions : StopSent(sid)

----------------------------------------------------------------------------
(* execute_all_courses: what the list returned holds *)

\* C30 as stated: every element of the list execute_all_courses returns is
\* a result record with a 'status' field, never a raw exception object.
C30_OnlyRecordsReturned ==
    BatchReturned =>
        \A i \in DOMAIN results :
            /\ results[i].kind = "dict"
            /\ "status" \in DOMAIN results[i]

----------------------------------------------------------------------------
(* VideoComposer: filter graph and input list *)

\* C28 as stated: for every narration list the filter of segment i reads
\* input i+2 and input i+2 of the ffmpeg command (intro is input 0, the
\* browser recording input 1) is the video file of segment i, also when
\* some segment has no video file.
C28_InputsAgree ==
    Composed =>
        \A i \in 0..(Len(narration_segments) - 1) :
           /\ \A k \in FiltersOf(filters, "video", i) \cup FiltersOf(filters, "audio", i) :
                 filters[k].input = i + 2
           /\ Len(cmd) >= i + 3
           /\ cmd[i + 3] = i

----------------------------------------------------------------------------
(* VideoComposer.compose_video: fallback and result *)

\* C23: with an empty narration list _compose_with_ffmpeg builds no overlay
\* filter and no overlay command and only concatenates intro and browser
\* recording; an overlay run that exits non-zero is followed by the same
\* simple concatenation; compose_video never raises: it returns None when
\* the composition raised, and otherwise the output path exactly when the
\* output file exists afterwards and None when it does not.
C23_ComposeFallback ==
    /\ (flow = "compose" /\ compose_out # "pending") =>
          /\ compose_out \in {"overlay", "concatenated"}
          /\ narration_segments = <<>> =>
                filters = <<>> /\ cmd = <<>> /\ compose_out = "concatenated"
    /\ flow = "video" =>
          \A c \in DOMAIN composing :
             LET call == composing[c]
             IN /\ ~call.narration =>
                      \A k \in DOMAIN call.ran : call.ran[k] = "concat"
                /\ (call.ran # <<>> /\ call.ran[1] = "overlay_failed"
                      /\ call.pc # "done") =>
                      call.pc \in {"sc_convert", "sc_concat"}
                /\ call.pc = "done" =>
                      /\ call.result \in {"path", "None"}
                      /\ call.raised => call.result = "None"
                      /\ output_dir.final[c] = NoVideo => call.result = "None"
                      /\ ~call.raised =>
                            /\ call.result = "path" <=>
                                  output_dir.final[c] # NoVideo
                            /\ call.ran = IF ~call.narration THEN <<"concat">>
                                          ELSE IF call.ran[1] = "overlay"
                                          THEN <<"overlay">>
                                          ELSE <<"overlay_failed", "concat">>

\* a call with narration segments whose overlay run failed returned the
\* path of the video its fallback concatenated
C23_Witness ==
    /\ flow = "video"
    /\ Len(composing) = 1
    /\ composing[1].narration
    /\ composing[1].pc = "done"
    /\ composing[1].ran = <<"overlay_failed", "concat">>
    /\ composing[1].result = "path"

\* C29 as stated: compose_video calls running concurrently on one output
\* directory do not interfere: the final video of each call that raised
\* nothing holds its own intro and its own browser recording, and when it
\* has returned no intermediate file written by it remains.
C29_NoInterference ==
    (flow = "video" /\ \A d \in DOMAIN composing : ~composing[d].raised) =>
        \A c \in DOMAIN composing :
           composing[c].pc = "done" =>
              /\ output_dir.final[c] \in {NoVideo, [intro |-> c, browser |-> c]}
              /\ output_dir.temp_browser # c
              /\ output_dir.concat_list # c

----------------------------------------------------------------------------
(* explore_product_cli: the gating of the stages *)

\* the position of the first entry op in the log of the run, 0 if none
CliPos(op) ==
    IF \E k \in DOMAIN log : log[k].op = op
    THEN CHOOSE k \in DOMAIN log :
            log[k].op = op /\ \A j \in 1..(k - 1) : log[j].op # op
    ELSE 0

\* op was done, and after, not before, the entry before
CliAfter(op, before) == CliPos(op) > 0 => (0 < CliPos(before) /\ CliPos(before) < CliPos(op))

\* C24: in explore_product_cli demo generation starts only after the
\* exploration was saved, and only with status 'finished' and demos
\* enabled; course execution starts only after the demos were generated
\* and saved, and only if requested; MDX generation starts only after the
\* execution results were saved; a failure of demo generation, course
\* execution or MDX generation is reported and the run returns normally,
\* while a failed exploration ends the run with exit status 1 and no later
\* stage is started.
C24_StageGating ==
    flow = "cli" =>
        /\ CliAfter("demos", "exploration_saved")
        /\ CliPos("demos") > 0 => cli.generate_demos /\ cli.result = "finished"
        /\ CliAfter("courses", "demos_saved")
        /\ CliPos("courses") > 0 => cli.execute_courses
        /\ CliAfter("mdx", "results_saved")
        /\ CliAfter("results_saved", "courses")
        /\ CliAfter("demos_failed", "demos")
        /\ CliAfter("courses_failed", "courses")
        /\ CliAfter("mdx_failed", "mdx")
        /\ cli.exit = "exit1" <=> CliPos("exploration_failed") > 0
        /\ CliPos("exploration_failed") > 0 =>
              /\ main_pc = "done"
              /\ Ops(log) = <<"explore", "exploration_failed">>
        /\ (main_pc = "done" /\ CliPos("exploration_failed") = 0) =>
              cli.exit = "returned"
        /\ main_pc # "done" => cli.exit = "running"

\* a run in which the courses were executed and saved and MDX generation
\* failed has returned normally
C24_Witness ==
    /\ flow = "cli"
    /\ main_pc = "done"
    /\ cli.exit = "returned"
    /\ Ops(log) = <<"explore", "exploration_saved", "demos", "demos_saved",
                    "courses", "results_saved", "mdx", "mdx_failed">>

====
